---- MODULE Spec2Model ----
(***************************************************************************)
(* Model of the webhook reconciliation engine of swagger-to-sdk            *)
(* (swaggertosdk/restapi/github.py and github_handler.py).                 *)
(*                                                                         *)
(* Two specifications follow the deliveries and the passes:                *)
(*   Spec       the reconciliation passes, one action per webhook handler  *)
(*              and one for an iteration of the consumer loop, acting on   *)
(*              the hosting-service state (pull requests, labels);         *)
(*   QueueSpec  the threads: request threads running rest_notify, push and *)
(*              rest_pull_request step by step, and the consumers started  *)
(*              from _WORKER_THREAD, with a pass as begin/generate/end.    *)
(*                                                                         *)
(* Four more apply parts of a pass on their own:                           *)
(*   LabelFaultSpec  the open and close passes when the hosting service    *)
(*                   may refuse a label call;                              *)
(*   LabelSpec       get_or_create_label and safe_remove_label on an issue;*)
(*   NameSpec        SdkPRModel.from_pr_webhook on events of several PRs;  *)
(*   GitSpec         the checkouts of generate_sdk_from_git_object.        *)
(*                                                                         *)
(* The others call one function, or follow one situation:                  *)
(*   ResolveSpec, PrSpec, OptionsSpec, TravisSpec, CommitSpec              *)
(*                   helpers of SwaggerToSdkCore.py and the main programs; *)
(*   PushRaceSpec    a push event handled while the pass of the PR waits;  *)
(*   SeveralSpec     the close pass with two open PRs of the same pair;    *)
(*   BotSpec         the comment bot of bot_framework.py and sdkbot.py,    *)
(*                   with the deliveries of its own comments in flight;    *)
(*   InitialPrSpec   get_pr_from_travis_commit_sha.                        *)
(***************************************************************************)
EXTENDS FiniteSets, Integers, Sequences, TLC

VARIABLES
    queue,      \* _QUEUE: the items put and not yet taken, oldest first
    gh,         \* hosting service: pull requests and labels of the SDK repo,
                \* owner logins of the spec repo and its forks (and the
                \* branches pushed in PushRaceSpec); in BotSpec the
                \* deliveries of the bot's own comments still in flight
    src,        \* the source PR of the spec repo (fork flag, base ref)
    last,       \* what the last finished pass or push handler did
    req,        \* request threads: position and locals of each
    wk,         \* consumers: one record per started run of consume()
    enq,        \* history: items put on _QUEUE, in order
    begun,      \* history: items handed to rest_handle_action, in order
    ended,      \* history: number of rest_handle_action calls that ended
    logged,     \* history: number of "Worked thread issue" critical logs
    recv,       \* history: number of webhook deliveries received
    call        \* the last call of a helper function and what it returned

vars == <<queue, gh, src, last, req, wk, enq, begun, ended, logged, recv, call>>

(***************************************************************************)
(* Bounds                                                                  *)
(***************************************************************************)
\* _QUEUE = Queue(64): the capacity, scaled down so that a full queue is reached
MaxQueue == 2
\* pull requests ever created in the SDK repo
MaxPulls == 2
\* webhook deliveries received in QueueSpec
MaxDeliveries == 3
MaxCommits == 1
\* words of the commit message Travis builds
MaxWords == 2
\* request threads of the web server
NumThreads == 2

(***************************************************************************)
(* Values                                                                  *)
(***************************************************************************)
None == "None"

\* a limit that lets four context tags through
context_tags_limit_four == 3 + 1

\* github.py:160
context_tags_limit == 3

\* github.py:263-267, SwaggerToSdkLabels (the label names)
merged == "RestPRMerged"
refused == "RestPRRefused"
in_progress == "RestPRInProgress"
service_pr == "ServicePR"

\* the repositories of the deployment: spec repo, SDK repo and its owner
RestApiRepo == "Azure/azure-rest-api-specs"
ForkRepo == "alice/azure-rest-api-specs"
ForkOwner == "alice"
OtherForkRepo == "bob/azure-rest-api-specs"
OtherForkOwner == "bob"
SdkId == "Azure/azure-sdk-for-python"
SdkOwner == "Azure"
SdkBase == "master"

\* the lists list(get_context_tag_from_git_object(rest_pr)) can return
TagLists ==
    { <<>>, <<"dns">>, <<"dns", "web", "sql">>, <<"dns", "web", "sql", "kv">> }

\* those of them that pass the tests of github.py:158-166
ReachingTagLists == { <<"dns">>, <<"dns", "web", "sql">> }

\* the webhook bodies of pull_request events of the source PR
Body(action, mrg, same) ==
    [ action |-> action,
      number |-> 42,
      before_is_after |-> same,
      merged |-> mrg,
      title |-> "Fix",
      head_repo |-> IF src.fork THEN ForkRepo ELSE RestApiRepo,
      head_ref |-> "feature",
      base_ref |-> src.base ]

Bodies ==
    { Body(a, FALSE, FALSE) : a \in {"opened", "reopened", "labeled"} }
    \cup { Body("closed", m, FALSE) : m \in BOOLEAN }
    \cup { Body("synchronize", FALSE, s) : s \in BOOLEAN }

\* what the hosting service and the generator answer during one pass:
\* the context tags of the source PR, whether generation leaves a diff
\* against HEAD, sdk_pr.mergeable, and which call fails ("read": a call of
\* github.py:146-156, "gen": the generation)
Envs ==
    [ tags : TagLists, diff : BOOLEAN, mergeable : BOOLEAN, fault : {"none"} ]
    \cup [ tags : {<<>>}, diff : {FALSE}, mergeable : {FALSE}, fault : {"read"} ]
    \cup [ tags : ReachingTagLists, diff : {FALSE}, mergeable : {FALSE},
           fault : {"gen"} ]

\* the passes in which the hosting service refuses a label call ("add":
\* issue.add_to_labels, "remove": issue.remove_from_labels) or the merge of
\* the target PR ("merge": sdk_pr.merge), and the passes of the same events
\* in which it refuses none
LabelFaultEnvs ==
    [ tags : ReachingTagLists, diff : {TRUE}, mergeable : BOOLEAN,
      fault : {"none", "add", "remove", "merge"} ]

\* the answers a push delivery depends on
PushEnvs == { e \in Envs : e.tags = <<>> /\ ~e.mergeable }

\* the effects of one pass, counted from its start: comments on the source
\* PR (errors: those of exception_to_github), comments on SDK pull requests,
\* generations, commits, pushed branches, pull-request lookups and creations,
\* label calls, the target PR ensured, the bases the target PR was sought
\* or ensured under, the base branches the generation checked out, the
\* target PR the close handler found, what sdk_pr.mergeable answered when
\* read, the calls of sdk_pr.merge and the calls of create_context_pr
NoLog ==
    [ comments |-> 0, errors |-> 0, sdkcomments |-> 0, gens |-> 0, commits |-> 0,
      pushed |-> {}, lookups |-> 0, creates |-> 0, labelops |-> 0, ensured |-> {},
      targets |-> {}, checkouts |-> <<>>, closing |-> {}, mergeable |-> "unread",
      merges |-> 0, services |-> 0 ]

(***************************************************************************)
(* The hosting service: pull requests of the SDK repo and their labels,    *)
(* the labels of the SDK repo, the owner logins of the spec repo's forks.  *)
(* A world w is [prs, labels, env, log]: the pull requests, the repo       *)
(* labels, the answers of this pass and the effects of the pass.           *)
(***************************************************************************)
Range(s) == { s[i] : i \in DOMAIN s }

create_comment(w) == [w EXCEPT !.log.comments = @ + 1]

\* sdk_pr.create_issue_comment(...), github.py:357-359
create_issue_comment(w) == [w EXCEPT !.log.sdkcomments = @ + 1]

\* repo.get_pulls(head=, base=): the open pull requests of that pair
get_pulls(w, head, base) ==
    { p \in w.prs : p.head = head /\ p.base = base /\ p.state = "open" }

looked(w) == [w EXCEPT !.log.lookups = @ + 1]

\* the base a handler seeks or ensures the target PR under
target(w, base) == [w EXCEPT !.log.targets = @ \cup {base}]

\* repo.create_pull(title, body, head, base)
create_pull(w, head, base) ==
    LET pr == [ number |-> Cardinality(w.prs) + 1, head |-> head, base |-> base,
                state |-> "open", labels |-> {}, is_merged |-> FALSE ]
    IN [ w |-> [w EXCEPT !.prs = @ \cup {pr}, !.log.creates = @ + 1],
         number |-> pr.number, created |-> TRUE ]

\* "ensure PR for (head, base)": look the pair up, create only when absent
get_or_create_pull(w, head, base) ==
    LET found == get_pulls(w, head, base)
    IN IF found # {}
       THEN [ w |-> looked(w), number |-> (CHOOSE p \in found : TRUE).number,
              created |-> FALSE ]
       ELSE create_pull(looked(w), head, base)

\* the labels of issue number
labels_of(w, number) ==
    IF \E p \in w.prs : p.number = number
    THEN (CHOOSE p \in w.prs : p.number = number).labels ELSE {}

\* issue.add_to_labels(label): the hosting service may refuse the call
add_to_labels(w, number, label) ==
    IF w.env.fault = "add"
    THEN [ w |-> [w EXCEPT !.log.labelops = @ + 1], raised |-> TRUE ]
    ELSE [ w |-> [w EXCEPT !.prs = { IF p.number = number
                                     THEN [p EXCEPT !.labels = @ \cup {label}]
                                     ELSE p : p \in @ },
                           !.log.labelops = @ + 1],
           raised |-> FALSE ]

\* issue.remove_from_labels(label): a GithubException (404) when the issue
\* does not carry the label, or when the service refuses the call
remove_from_labels(w, number, label) ==
    IF w.env.fault = "remove" \/ label \notin labels_of(w, number)
    THEN [ w |-> [w EXCEPT !.log.labelops = @ + 1], raised |-> TRUE ]
    ELSE [ w |-> [w EXCEPT !.prs = { IF p.number = number
                                     THEN [p EXCEPT !.labels = @ \ {label}]
                                     ELSE p : p \in @ },
                           !.log.labelops = @ + 1],
           raised |-> FALSE ]

\* the removal without the except clause
safe_remove_label_uncaught(w, number, label) ==
    remove_from_labels(w, number, label)

\* github.py:275-281: except GithubException: pass
safe_remove_label(w, number, label) ==
    [ w |-> remove_from_labels(w, number, label).w, raised |-> FALSE ]

\* github.py:263-267, SwaggerToSdkLabels: the colour of each label
label_color(name) ==
    IF name = merged THEN "0e8a16"
    ELSE IF name = refused THEN "b60205"
    ELSE IF name = in_progress THEN "fbca04"
    ELSE "1d76db"

\* repo.create_label(name, color): refused (422) when the name is taken
create_label(w, name, color) ==
    IF \E l \in w.labels : l.name = name
    THEN [ w |-> w, label |-> None, raised |-> TRUE ]
    ELSE [ w |-> [w EXCEPT !.labels = @ \cup {[name |-> name, color |-> color]}],
           label |-> name, raised |-> FALSE ]

\* the label created without looking it up first
get_or_create_label_create(w, name) ==
    create_label(w, name, label_color(name))

\* github.py:269-273: the label is fetched, or created when unknown
get_or_create_label(w, name) ==
    IF \E l \in w.labels : l.name = name
    THEN [ w |-> w, label |-> name, raised |-> FALSE ]
    ELSE create_label(w, name, label_color(name))

\* issue.add_to_labels(get_or_create_label(repo, label)), github.py:231,254,348,353
add_label(w, number, name) ==
    LET l == get_or_create_label(w, name)
    IN IF l.raised THEN [ w |-> l.w, raised |-> TRUE ]
       ELSE add_to_labels(l.w, number, l.label)

\* safe_remove_label(issue, get_or_create_label(repo, label)), github.py:232,233,345
remove_label(w, number, name) ==
    LET l == get_or_create_label(w, name)
    IN IF l.raised THEN [ w |-> l.w, raised |-> TRUE ]
       ELSE safe_remove_label(l.w, number, l.label)

\* sdk_pr.edit(state="closed")
edit_closed(w, number) ==
    [w EXCEPT !.prs = { IF p.number = number
                        THEN [p EXCEPT !.state = "closed"] ELSE p : p \in @ }]

\* sdk_pr.merge(merge_method="squash")
merge_squash(w, number) ==
    IF w.env.fault = "merge"
    THEN [ w |-> [w EXCEPT !.log.merges = @ + 1], raised |-> TRUE ]
    ELSE [ w |-> [w EXCEPT !.prs = { IF p.number = number
                                     THEN [p EXCEPT !.state = "closed",
                                                    !.is_merged = TRUE]
                                     ELSE p : p \in @ },
                           !.log.merges = @ + 1],
           raised |-> FALSE ]

\* github_con.get_repo(origin_repo).owner.login: what the hosting service
\* answers now (None: the repository is gone and get_repo raises)
owner_login(repo) == gh.logins[repo]

(***************************************************************************)
(* SdkPRModel.from_pr_webhook, github.py:288-312                           *)
(***************************************************************************)
\* the naming with the SDK trunk written in place of sdk_default_base
from_pr_webhook_trunk(body, sdk_default_base) ==
    IF body.head_repo # RestApiRepo /\ owner_login(body.head_repo) = None
    THEN [ head_branch_name |-> None, base_branch_name |-> None, raised |-> TRUE ]
    ELSE [ head_branch_name |->
               IF body.head_repo # RestApiRepo
               THEN "restapi_auto_" \o owner_login(body.head_repo) \o "_" \o body.head_ref
               ELSE "restapi_auto_" \o body.head_ref,
           base_branch_name |->
               IF body.base_ref = "master" THEN "master"
               ELSE "restapi_auto_" \o body.base_ref,
           raised |-> FALSE ]

from_pr_webhook(body, sdk_default_base) ==
    IF body.head_repo # RestApiRepo /\ owner_login(body.head_repo) = None
    THEN [ head_branch_name |-> None, base_branch_name |-> None, raised |-> TRUE ]
    ELSE [ head_branch_name |->
               IF body.head_repo # RestApiRepo
               THEN "restapi_auto_" \o owner_login(body.head_repo) \o "_" \o body.head_ref
               ELSE "restapi_auto_" \o body.head_ref,
           base_branch_name |->
               IF body.base_ref = "master" THEN sdk_default_base
               ELSE "restapi_auto_" \o body.base_ref,
           raised |-> FALSE ]

(***************************************************************************)
(* generate_sdk_from_git_object, github_handler.py:244-330.  The result is *)
(* the world, the commit url (None without a commit) and whether it raised.*)
(***************************************************************************)
\* the generation with the pushes outside the test of commit_sha
generate_sdk_from_git_object_push_always(w, branch_name, base_branch_names, env) ==
    LET w0 == [w EXCEPT !.log.gens = @ + 1, !.log.checkouts = base_branch_names]
        w1 == [w0 EXCEPT !.log.pushed = @ \cup Range(base_branch_names)
                                          \cup {branch_name}]
    IN IF env.fault = "gen"
       THEN [ w |-> w0, url |-> None, raised |-> TRUE ]
       ELSE IF env.diff
       THEN [ w |-> [w1 EXCEPT !.log.commits = @ + 1],
              url |-> "https://github.com/" \o SdkId \o "/commit/sha",
              raised |-> FALSE ]
       ELSE [ w |-> w1, url |-> None, raised |-> FALSE ]

generate_sdk_from_git_object(w, branch_name, base_branch_names, env) ==
    LET w1 == [w EXCEPT !.log.gens = @ + 1, !.log.checkouts = base_branch_names]
    IN IF env.fault = "gen"
       THEN [ w |-> w1, url |-> None, raised |-> TRUE ]
       ELSE IF env.diff
       THEN [ w |-> [w1 EXCEPT !.log.commits = @ + 1,
                               !.log.pushed = @ \cup Range(base_branch_names)
                                                \cup {branch_name}],
              url |-> "https://github.com/" \o SdkId \o "/commit/sha",
              raised |-> FALSE ]
       ELSE [ w |-> w1, url |-> None, raised |-> FALSE ]

(***************************************************************************)
(* The handlers of the worker thread, github.py:142-408.  Each returns the *)
(* world it leaves and whether an exception left it.                       *)
(***************************************************************************)
\* github.py:242-261: the failures of the block are logged and accepted
create_context_pr(w, context_tags, sdk_base) ==
    LET context_branch == "restapi_auto_" \o context_tags[1]
        r == get_or_create_pull([w EXCEPT !.log.services = @ + 1],
                                SdkOwner \o ":" \o context_branch, sdk_base)
    IN add_label(r.w, r.number, service_pr).w

\* github.py:220-226: the target PR of the pass
target_pull_create(w, head, base) ==
    create_pull(w, head, base)

target_pull(w, head, base) ==
    get_or_create_pull(w, head, base)

\* the open handler without the in_progress label
rest_pull_open_pr_unlabelled(w, context_tags, sdk_dest_branch, context_branch, sdk_base) ==
    LET head == SdkOwner \o ":" \o sdk_dest_branch
        base == IF context_branch # None THEN context_branch ELSE sdk_base
        r == target_pull(target(w, base), head, base)
        w0 == [r.w EXCEPT !.log.ensured = @ \cup
                  {[number |-> r.number, created |-> r.created,
                    head |-> head, base |-> base]}]
        w1 == create_comment(w0)
        r3 == remove_label(w1, r.number, refused)
        r4 == remove_label(r3.w, r.number, merged)
    IN IF r3.raised THEN r3.w
       ELSE IF r4.raised THEN r4.w
       ELSE IF context_branch # None
       THEN create_context_pr(r4.w, context_tags, sdk_base)
       ELSE r4.w

\* github.py:219-240: ensure the target PR, comment, label, service PR; a
\* failure of the label block is logged and the handler returns (l.234-237)
rest_pull_open_pr(w, context_tags, sdk_dest_branch, context_branch, sdk_base) ==
    LET head == SdkOwner \o ":" \o sdk_dest_branch
        base == IF context_branch # None THEN context_branch ELSE sdk_base
        r == target_pull(target(w, base), head, base)
        w0 == [r.w EXCEPT !.log.ensured = @ \cup
                  {[number |-> r.number, created |-> r.created,
                    head |-> head, base |-> base]}]
        w1 == create_comment(w0)
        r2 == add_label(w1, r.number, in_progress)
        r3 == remove_label(r2.w, r.number, refused)
        r4 == remove_label(r3.w, r.number, merged)
    IN IF r2.raised THEN r2.w
       ELSE IF r3.raised THEN r3.w
       ELSE IF r4.raised THEN r4.w
       ELSE IF context_branch # None
       THEN create_context_pr(r4.w, context_tags, sdk_base)
       ELSE r4.w

\* github.py:186-193: the base branches the generation checks out
checkout_bases(body, context_tags, sdk_base) ==
    LET bases0 == IF body.base_ref = "master" THEN <<>> ELSE <<sdk_base>>
    IN IF Len(context_tags) = 1
       THEN <<"restapi_auto_" \o context_tags[1]>> \o bases0 ELSE bases0

\* github.py:177-240
rest_pull_open(body, w, context_tags, sdk_default_base, env) ==
    LET origin_repo == body.head_repo
        sdk_pr_model == from_pr_webhook(body, sdk_default_base)
        sdk_base == sdk_pr_model.base_branch_name
        sdk_dest_branch == sdk_pr_model.head_branch_name
        context_branch0 == IF Len(context_tags) = 1
                           THEN "restapi_auto_" \o context_tags[1] ELSE None
        sdk_checkout_bases == checkout_bases(body, context_tags, sdk_base)
        g == generate_sdk_from_git_object(w, sdk_dest_branch, sdk_checkout_bases, env)
    IN IF sdk_pr_model.raised THEN [ w |-> w, raised |-> TRUE ]
       ELSE IF origin_repo # RestApiRepo
       THEN IF g.raised
            THEN [ w |-> g.w, raised |-> TRUE ]
            ELSE IF g.url # None
            THEN [ w |-> rest_pull_open_pr(create_comment(g.w), context_tags,
                                           sdk_dest_branch, context_branch0, sdk_base),
                   raised |-> FALSE ]
            ELSE [ w |-> create_comment(g.w), raised |-> FALSE ]
       ELSE [ w |-> rest_pull_open_pr(w, context_tags, sdk_dest_branch, None, sdk_base),
              raised |-> FALSE ]

\* github.py:347-355, the try block of the close handler: the label of the
\* outcome, then the merge (when sdk_pr.mergeable) or the close
close_transition(body, w, context_branch, sdk_pr, env) ==
    LET r2 == IF body.merged
              THEN add_label(w, sdk_pr, merged)
              ELSE add_label(w, sdk_pr, refused)
        wq == [r2.w EXCEPT !.log.mergeable = IF env.mergeable THEN "true" ELSE "false"]
    IN IF r2.raised THEN r2
       ELSE IF body.merged
       THEN IF context_branch # None
            THEN IF env.mergeable THEN merge_squash(wq, sdk_pr)
                 ELSE [ w |-> wq, raised |-> FALSE ]
            ELSE r2
       ELSE [ w |-> edit_closed(r2.w, sdk_pr), raised |-> FALSE ]

\* the close handler without the except clause of its try block
rest_pull_close_one_fatal(body, w, context_tags, context_branch, sdk_base, sdk_pr, env) ==
    LET r1 == remove_label([w EXCEPT !.log.closing = @ \cup {sdk_pr}], sdk_pr, in_progress)
        t == close_transition(body, r1.w, context_branch, sdk_pr, env)
    IN IF r1.raised THEN r1
       ELSE IF t.raised THEN t
       ELSE [ w |-> IF context_branch # None
                    THEN create_context_pr(t.w, context_tags, sdk_base)
                    ELSE t.w,
              raised |-> FALSE ]

\* github.py:343-359: the close handler found exactly one target PR; a
\* GithubException of the try block becomes a comment on the target PR
rest_pull_close_one(body, w, context_tags, context_branch, sdk_base, sdk_pr, env) ==
    LET r1 == remove_label([w EXCEPT !.log.closing = @ \cup {sdk_pr}], sdk_pr, in_progress)
        t == close_transition(body, r1.w, context_branch, sdk_pr, env)
        w2 == IF t.raised THEN create_issue_comment(t.w) ELSE t.w
    IN IF r1.raised THEN r1
       ELSE [ w |-> IF context_branch # None
                    THEN create_context_pr(w2, context_tags, sdk_base)
                    ELSE w2,
              raised |-> FALSE ]

\* the close handler that leaves a missing target PR missing
rest_pull_close_found_only(body, w, context_tags, sdk_default_base, env) ==
    LET sdk_pr_model == from_pr_webhook(body, sdk_default_base)
        sdk_base == sdk_pr_model.base_branch_name
        context_branch == IF Len(context_tags) = 1
                          THEN "restapi_auto_" \o context_tags[1] ELSE None
        head == SdkOwner \o ":" \o sdk_pr_model.head_branch_name
        base == IF context_branch # None THEN context_branch ELSE sdk_base
        sdk_prs == get_pulls(w, head, base)
        wl == target(looked(w), base)
    IN IF sdk_pr_model.raised THEN [ w |-> w, raised |-> TRUE ]
       ELSE IF sdk_prs = {}
       THEN [ w |-> create_comment(wl), raised |-> FALSE ]
       ELSE IF Cardinality(sdk_prs) = 1
       THEN rest_pull_close_one(body, wl, context_tags, context_branch,
                sdk_base, (CHOOSE p \in sdk_prs : TRUE).number, env)
       ELSE [ w |-> wl, raised |-> FALSE ]

\* the close handler applying the transition to one of several target PRs
rest_pull_close_first_of_several(body, w, context_tags, sdk_default_base, env) ==
    LET sdk_pr_model == from_pr_webhook(body, sdk_default_base)
        sdk_base == sdk_pr_model.base_branch_name
        context_branch == IF Len(context_tags) = 1
                          THEN "restapi_auto_" \o context_tags[1] ELSE None
        head == SdkOwner \o ":" \o sdk_pr_model.head_branch_name
        base == IF context_branch # None THEN context_branch ELSE sdk_base
        first == get_pulls(w, head, base)
        wl == target(looked(w), base)
        o == rest_pull_open(body, wl, context_tags, sdk_default_base, env)
        wa == IF first = {} THEN looked(o.w) ELSE wl
        sdk_prs == IF first = {} THEN get_pulls(o.w, head, base) ELSE first
    IN IF sdk_pr_model.raised THEN [ w |-> w, raised |-> TRUE ]
       ELSE IF first = {} /\ o.raised
       THEN o
       ELSE IF sdk_prs = {}
       THEN [ w |-> create_comment(wa), raised |-> FALSE ]
       ELSE rest_pull_close_one(body, wa, context_tags, context_branch,
                sdk_base, (CHOOSE p \in sdk_prs : TRUE).number, env)

\* github.py:314-364
rest_pull_close(body, w, context_tags, sdk_default_base, env) ==
    LET sdk_pr_model == from_pr_webhook(body, sdk_default_base)
        sdk_base == sdk_pr_model.base_branch_name
        context_branch == IF Len(context_tags) = 1
                          THEN "restapi_auto_" \o context_tags[1] ELSE None
        head == SdkOwner \o ":" \o sdk_pr_model.head_branch_name
        base == IF context_branch # None THEN context_branch ELSE sdk_base
        first == get_pulls(w, head, base)
        wl == target(looked(w), base)
        o == rest_pull_open(body, wl, context_tags, sdk_default_base, env)
        wa == IF first = {} THEN looked(o.w) ELSE wl
        sdk_prs == IF first = {} THEN get_pulls(o.w, head, base) ELSE first
    IN IF sdk_pr_model.raised THEN [ w |-> w, raised |-> TRUE ]
       ELSE IF first = {} /\ o.raised
       THEN o
       ELSE IF sdk_prs = {}
       THEN [ w |-> create_comment(wa), raised |-> FALSE ]
       ELSE IF Cardinality(sdk_prs) = 1
       THEN rest_pull_close_one(body, wa, context_tags, context_branch,
                sdk_base, (CHOOSE p \in sdk_prs : TRUE).number, env)
       ELSE [ w |-> wa, raised |-> FALSE ]

\* the synchronize handler regenerating onto the head branch of a PR that
\* does not come from a fork
rest_pull_sync_plain_head(body, w, context_tags, sdk_default_base, env) ==
    LET origin_repo == body.head_repo
        context_branch == IF Len(context_tags) = 1
                          THEN "restapi_auto_" \o context_tags[1] ELSE None
        sdk_pr_model == from_pr_webhook(body, sdk_default_base)
        head == SdkOwner \o ":" \o sdk_pr_model.head_branch_name
        base == IF context_branch # None THEN context_branch
                ELSE sdk_pr_model.base_branch_name
        sdk_prs == get_pulls(w, head, base)
        wl == target(looked(w), base)
        g == generate_sdk_from_git_object(wl, "restapi_auto_" \o body.head_ref,
                                          <<>>, env)
    IN IF body.before_is_after THEN [ w |-> w, raised |-> FALSE ]
       ELSE IF origin_repo = RestApiRepo THEN [ w |-> w, raised |-> FALSE ]
       ELSE IF sdk_pr_model.raised THEN [ w |-> w, raised |-> TRUE ]
       ELSE IF sdk_prs = {}
       THEN rest_pull_open(body, wl, context_tags, sdk_default_base, env)
       ELSE IF g.raised THEN [ w |-> g.w, raised |-> TRUE ]
       ELSE [ w |-> create_comment(g.w), raised |-> FALSE ]

\* github.py:366-408
rest_pull_sync(body, w, context_tags, sdk_default_base, env) ==
    LET origin_repo == body.head_repo
        context_branch == IF Len(context_tags) = 1
                          THEN "restapi_auto_" \o context_tags[1] ELSE None
        sdk_pr_model == from_pr_webhook(body, sdk_default_base)
        head == SdkOwner \o ":" \o sdk_pr_model.head_branch_name
        base == IF context_branch # None THEN context_branch
                ELSE sdk_pr_model.base_branch_name
        sdk_prs == get_pulls(w, head, base)
        wl == target(looked(w), base)
        g == generate_sdk_from_git_object(wl,
                 "restapi_auto_" \o owner_login(origin_repo) \o "_" \o body.head_ref,
                 <<>>, env)
    IN IF body.before_is_after THEN [ w |-> w, raised |-> FALSE ]
       ELSE IF origin_repo = RestApiRepo THEN [ w |-> w, raised |-> FALSE ]
       ELSE IF sdk_pr_model.raised THEN [ w |-> w, raised |-> TRUE ]
       ELSE IF sdk_prs = {}
       THEN rest_pull_open(body, wl, context_tags, sdk_default_base, env)
       ELSE IF g.raised THEN [ w |-> g.w, raised |-> TRUE ]
       ELSE [ w |-> create_comment(g.w), raised |-> FALSE ]

\* an error boundary that swallows the exception without a comment
exception_to_github_silent(r) ==
    IF r.raised THEN [ w |-> r.w, raised |-> FALSE ] ELSE r

\* exception_to_github(dashboard, sdk_tag): an exception of the block is
\* reported as a comment on the source PR and not raised again
exception_to_github(r) ==
    IF r.raised
    THEN [ w |-> [create_comment(r.w) EXCEPT !.log.errors = @ + 1], raised |-> FALSE ]
    ELSE r

\* github.py:142-175
rest_handle_action(body, w, sdkbase, env) ==
    LET context_tags == env.tags
    IN IF env.fault = "read"
       THEN [ w |-> w, raised |-> TRUE ]
       ELSE IF Len(context_tags) = 0
       THEN [ w |-> create_comment(w), raised |-> FALSE ]
       ELSE IF Len(context_tags) > context_tags_limit
       THEN [ w |-> create_comment(w), raised |-> FALSE ]
       ELSE exception_to_github(
              IF body.action \in {"opened", "reopened"}
              THEN rest_pull_open(body, w, context_tags, sdkbase, env)
              ELSE IF body.action = "closed"
              THEN rest_pull_close(body, w, context_tags, sdkbase, env)
              ELSE IF body.action = "synchronize"
              THEN rest_pull_sync(body, w, context_tags, sdkbase, env)
              ELSE [ w |-> w, raised |-> FALSE ])

(***************************************************************************)
(* The push handler, github.py:100-127, up to the end of the generation.   *)
(***************************************************************************)
push(w, sdkid, rest_api_branch_name, env) ==
    IF sdkid = None THEN [ w |-> w, raised |-> FALSE ]
    ELSE IF rest_api_branch_name = "master" THEN [ w |-> w, raised |-> FALSE ]
    ELSE IF env.fault = "read" THEN [ w |-> w, raised |-> TRUE ]
    ELSE LET g == generate_sdk_from_git_object(w,
                      "restapi_auto_" \o rest_api_branch_name, <<>>, env)
         IN [ w |-> g.w, raised |-> g.raised ]

(***************************************************************************)
(* Spec: the passes of the consumer and the push deliveries, each as one   *)
(* step on the hosting service.  The item of a pass is the one _QUEUE.get  *)
(* returns; QueueSpec below models how items get there.                    *)
(***************************************************************************)
Threads == 1 .. NumThreads

NoLast ==
    [ kind |-> "none", action |-> None, merged |-> FALSE, ntags |-> 0,
      fault |-> "none", diff |-> FALSE, raised |-> FALSE, log |-> NoLog,
      pre |-> {}, same |-> FALSE ]

\* no helper function called yet
NoCall == [ fn |-> None ]

\* the owner logins get_repo answers for the spec repo and its forks
Logins ==
    [ r \in {RestApiRepo, ForkRepo, OtherForkRepo} |->
        IF r = ForkRepo THEN ForkOwner
        ELSE IF r = OtherForkRepo THEN OtherForkOwner ELSE SdkOwner ]

\* the world a pass or handler starts in, under the answers env
World(env) == [ prs |-> gh.prs, labels |-> gh.labels, env |-> env, log |-> NoLog ]

\* a request thread between two requests
IdleReq == [ pc |-> "idle", item |-> None ]

Init ==
    /\ queue = <<>>
    /\ gh = [ prs |-> {}, labels |-> {}, logins |-> Logins ]
    /\ src \in [ fork : BOOLEAN, base : {"master", "dev"} ]
    /\ last = NoLast
    /\ req = [ t \in Threads |-> IdleReq ]
    /\ wk = <<>>
    /\ enq = <<>>
    /\ begun = <<>>
    /\ ended = 0
    /\ logged = 0
    /\ recv = 0
    /\ call = NoCall

OpenPulls(prs) ==
    { [ number |-> p.number, head |-> p.head, base |-> p.base ] :
        p \in { q \in prs : q.state = "open" } }

\* consume, github.py:413-419: one iteration, the pass of one item
Consume(body, env) ==
    LET r == rest_handle_action(body, World(env), SdkBase, env)
    IN /\ Cardinality(r.w.prs) <= MaxPulls
       /\ gh' = [gh EXCEPT !.prs = r.w.prs, !.labels = r.w.labels]
       /\ last' = [ kind |-> "pass", action |-> body.action, merged |-> body.merged,
                    ntags |-> Len(env.tags), fault |-> env.fault, diff |-> env.diff,
                    raised |-> r.raised, log |-> r.w.log, pre |-> OpenPulls(gh.prs),
                    same |-> body.before_is_after ]
       /\ UNCHANGED <<call, queue, src, req, wk, enq, begun, ended, logged, recv>>

\* push, github.py:100-127: one push delivery, on its request thread
Push(sdkid, branch, env) ==
    LET r == push(World(env), sdkid, branch, env)
    IN /\ gh' = [gh EXCEPT !.prs = r.w.prs, !.labels = r.w.labels]
       /\ last' = [ kind |-> "push", action |-> None, merged |-> FALSE,
                    ntags |-> 0, fault |-> env.fault, diff |-> env.diff,
                    raised |-> r.raised, log |-> r.w.log, pre |-> OpenPulls(gh.prs),
                    same |-> FALSE ]
       /\ UNCHANGED <<call, queue, src, req, wk, enq, begun, ended, logged, recv>>

Next ==
    \/ \E body \in Bodies, env \in Envs : Consume(body, env)
    \/ \E sdkid \in {None, SdkId}, branch \in {"master", "feature"}, env \in PushEnvs :
          Push(sdkid, branch, env)

Spec == Init /\ [][Next]_vars

(***************************************************************************)
(* LabelFaultSpec: the passes of the source PR's open and close events     *)
(* when the hosting service may refuse the label calls of a pass.          *)
(***************************************************************************)
LabelFaultBodies ==
    { Body("opened", FALSE, FALSE) } \cup { Body("closed", m, FALSE) : m \in BOOLEAN }

LabelFaultNext ==
    \E body \in LabelFaultBodies, env \in LabelFaultEnvs : Consume(body, env)

LabelFaultSpec == Init /\ [][LabelFaultNext]_vars

(***************************************************************************)
(* LabelSpec: the label helpers of github.py:269-281 called, in any order, *)
(* on one issue of the SDK repo, whose labels people may have created      *)
(* before with colours of their own.                                       *)
(***************************************************************************)
LabelNames == {merged, refused, in_progress, service_pr}

\* the answers of a pass in which the hosting service refuses nothing
Answering == [ tags |-> <<"dns">>, diff |-> TRUE, mergeable |-> TRUE, fault |-> "none" ]

\* sdk_pr_target_repo.get_issue(number): the issue the helpers act on
Issue ==
    [ number |-> 1, head |-> SdkOwner \o ":restapi_auto_feature", base |-> SdkBase,
      state |-> "open", labels |-> {}, is_merged |-> FALSE ]

\* labels of those names created by hand
HandMade == { [ name |-> n, color |-> "ededed" ] : n \in LabelNames }

LabelInit ==
    /\ queue = <<>>
    /\ gh \in [ prs : {{Issue}}, labels : SUBSET HandMade, logins : {Logins} ]
    /\ src = [ fork |-> TRUE, base |-> "master" ]
    /\ last = NoLast
    /\ req = [ t \in Threads |-> IdleReq ]
    /\ wk = <<>>
    /\ enq = <<>>
    /\ begun = <<>>
    /\ ended = 0
    /\ logged = 0
    /\ recv = 0
    /\ call = NoCall

\* what a call of a label helper on the issue did
Called(fn, name, r, returned) ==
    /\ gh' = [gh EXCEPT !.prs = r.w.prs, !.labels = r.w.labels]
    /\ call' = [ fn |-> fn, label |-> name,
                 issue_before |-> labels_of(World(Answering), Issue.number),
                 repo_before |-> gh.labels,
                 returned |-> returned, raised |-> r.raised ]
    /\ UNCHANGED <<queue, src, last, req, wk, enq, begun, ended, logged, recv>>

\* safe_remove_label(issue, label), github.py:275-281
CallSafeRemoveLabel(name) ==
    Called("safe_remove_label", name,
           safe_remove_label(World(Answering), Issue.number, name), None)

\* issue.add_to_labels(get_or_create_label(repo, label)), github.py:231
CallAddLabel(name) ==
    Called("add_label", name, add_label(World(Answering), Issue.number, name), None)

\* get_or_create_label(repo, label), github.py:269-273
CallGetOrCreateLabel(name) ==
    LET r == get_or_create_label(World(Answering), name)
    IN Called("get_or_create_label", name, r, r.label)

LabelNext ==
    \E name \in LabelNames :
        \/ CallSafeRemoveLabel(name)
        \/ CallAddLabel(name)
        \/ CallGetOrCreateLabel(name)

LabelSpec == LabelInit /\ [][LabelNext]_vars

(***************************************************************************)
(* NameSpec: SdkPRModel.from_pr_webhook called on webhook events of        *)
(* several source PRs, while the owners of the forks rename, transfer or   *)
(* delete them on the hosting service.                                     *)
(***************************************************************************)
HeadRefs == {"feature", "alice_feature", "42"}

\* pull_request events of source PRs of the spec repo and of two forks
Events ==
    { [ action |-> "opened", number |-> 42, before_is_after |-> FALSE,
        merged |-> FALSE, title |-> "Fix",
        head_repo |-> r, head_ref |-> h, base_ref |-> b ] :
        r \in {RestApiRepo, ForkRepo, OtherForkRepo}, h \in HeadRefs,
        b \in {"master", "dev"} }

\* the values of sdk_default_base, github.py:133
FallbackBases == {"master", "release"}

\* github.py:293: "This PR comes from a fork"
IsFork(body) == body.head_repo # RestApiRepo

NameInit ==
    /\ queue = <<>>
    /\ gh = [ prs |-> {}, labels |-> {}, logins |-> Logins ]
    /\ src = [ fork |-> TRUE, base |-> "master" ]
    /\ last = NoLast
    /\ req = [ t \in Threads |-> IdleReq ]
    /\ wk = <<>>
    /\ enq = <<>>
    /\ begun = <<>>
    /\ ended = 0
    /\ logged = 0
    /\ recv = 0
    /\ call = NoCall

\* SdkPRModel.from_pr_webhook(body, ..., sdk_default_base), github.py:288-312;
\* prev keeps the call before this one, if any
CallFromPrWebhook(body, sdk_default_base) ==
    /\ call' = [ fn |-> "from_pr_webhook", body |-> body, base |-> sdk_default_base,
                 result |-> from_pr_webhook(body, sdk_default_base),
                 prev |-> IF call.fn = "from_pr_webhook"
                          THEN << [ body |-> call.body, base |-> call.base,
                                    result |-> call.result ] >>
                          ELSE <<>> ]
    /\ UNCHANGED <<queue, gh, src, last, req, wk, enq, begun, ended, logged, recv>>

\* the owner of a fork renames the account or transfers the fork (the old
\* full name then redirects to the new owner), or deletes the fork
ForkChange(repo, login) ==
    /\ gh.logins[repo] # None
    /\ \A r \in DOMAIN gh.logins : gh.logins[r] # login \/ login = None
    /\ gh' = [gh EXCEPT !.logins[repo] = login]
    /\ UNCHANGED <<queue, src, last, req, wk, enq, begun, ended, logged, recv, call>>

NameNext ==
    \/ \E body \in Events, base \in FallbackBases : CallFromPrWebhook(body, base)
    \/ \E repo \in {ForkRepo, OtherForkRepo}, login \in {"carol", None} :
          ForkChange(repo, login)

NameSpec == NameInit /\ [][NameNext]_vars

(***************************************************************************)
(* GitSpec: the checkouts of generate_sdk_from_git_object in the clone of  *)
(* the SDK repo, as the open handler of a fork PR asks for them.  A commit *)
(* is named by the branch of origin whose tip it is; a clone is            *)
(* [origin, local, head, started]: the branches of origin, the commit of   *)
(* each local branch, the commit checked out, and the branches created     *)
(* in the clone with the commit each started at, in order of creation;     *)
(* with them the active branch and the commits made in the clone, each     *)
(* with its parent, message and tree (a set of <<file, content>>).         *)
(***************************************************************************)
\* manage_git_folder(gh_token, sdk, sdk_git_id@fallback_base_branch_name),
\* github_handler.py:271-275
clone(origin, fallback) ==
    [ origin |-> origin, local |-> [ b \in {fallback} |-> fallback ],
      head |-> fallback, started |-> <<>>, active |-> fallback, commits |-> <<>> ]

\* SwaggerToSdkCore.py:39-51
checkout_and_create_branch(repo, name) ==
    IF name \in DOMAIN repo.local
    THEN [repo EXCEPT !.head = repo.local[name], !.active = name]
    ELSE IF name \in repo.origin
    THEN [repo EXCEPT !.local = [ b \in DOMAIN @ \cup {name} |->
                                    IF b = name THEN name ELSE @[b] ],
                      !.head = name, !.active = name]
    ELSE [repo EXCEPT !.local = [ b \in DOMAIN @ \cup {name} |->
                                    IF b = name THEN repo.head ELSE @[b] ],
                      !.started = Append(@, [ branch |-> name, at |-> repo.head ]),
                      !.active = name]

\* the tree of the commits the clone came with
BaseTree == {}

\* the tree and the message of commit c in the clone
tree_of(repo, c) ==
    IF \E i \in DOMAIN repo.commits : repo.commits[i].id = c
    THEN repo.commits[CHOOSE i \in DOMAIN repo.commits : repo.commits[i].id = c].tree
    ELSE BaseTree

message_of(repo, c) ==
    IF \E i \in DOMAIN repo.commits : repo.commits[i].id = c
    THEN repo.commits[CHOOSE i \in DOMAIN repo.commits : repo.commits[i].id = c].message
    ELSE "Initial commit"

\* a message template is the sequence of its literal parts and replacement
\* fields; str.format raises KeyError for a field that is not given
is_field(part) == part \in {"{hexsha}", "{resourceName}"}

RECURSIVE join(_)
join(parts) == IF parts = <<>> THEN "" ELSE Head(parts) \o join(Tail(parts))

\* message_template.format(hexsha=hexsha), SwaggerToSdkCore.py:119
format(message_template, hexsha) ==
    IF \E i \in DOMAIN message_template :
          is_field(message_template[i]) /\ message_template[i] # "{hexsha}"
    THEN [ msg |-> None, raised |-> TRUE ]
    ELSE [ msg |-> join([ i \in DOMAIN message_template |->
                            IF message_template[i] = "{hexsha}" THEN hexsha
                            ELSE message_template[i] ]),
           raised |-> FALSE ]

\* the commit made whether or not the index differs from HEAD
do_commit_always(repo, message_template, branch_name, hexsha, worktree) ==
    LET r1 == checkout_and_create_branch(repo, branch_name)
        m == format(message_template, hexsha)
        id == "c" \o ToString(Len(r1.commits) + 1)
    IN IF m.raised THEN [ repo |-> r1, result |-> FALSE, raised |-> TRUE ]
       ELSE [ repo |-> [r1 EXCEPT !.local[branch_name] = id, !.head = id,
                                  !.commits = Append(@, [ id |-> id, parent |-> r1.head,
                                                          message |-> m.msg,
                                                          tree |-> worktree ])],
              result |-> TRUE, raised |-> FALSE ]

\* SwaggerToSdkCore.py:109-121: git add of the working tree, then the test
\* of git diff --staged, the checkout of branch_name and the commit
do_commit(repo, message_template, branch_name, hexsha, worktree) ==
    LET r1 == checkout_and_create_branch(repo, branch_name)
        m == format(message_template, hexsha)
        id == "c" \o ToString(Len(r1.commits) + 1)
    IN IF worktree = tree_of(repo, repo.head)
       THEN [ repo |-> repo, result |-> FALSE, raised |-> FALSE ]
       ELSE IF m.raised THEN [ repo |-> r1, result |-> FALSE, raised |-> TRUE ]
       ELSE [ repo |-> [r1 EXCEPT !.local[branch_name] = id, !.head = id,
                                  !.commits = Append(@, [ id |-> id, parent |-> r1.head,
                                                          message |-> m.msg,
                                                          tree |-> worktree ])],
              result |-> TRUE, raised |-> FALSE ]

\* SwaggerToSdkCore.py:25
DEFAULT_COMMIT_MESSAGE == <<"Generated from ", "{hexsha}">>

\* the messages of the last commit of the source PR or push
CommitMessages == { <<"Fix dns">>, <<"Rename ", "{resourceName}">> }

\* the tree build_libraries leaves when the generation changes the SDK
GeneratedTree == { <<"client.py", "generated">> }

\* github_handler.py:284-286, the loop over base_branch_names
RECURSIVE checkout_bases_in(_, _)
checkout_bases_in(repo, base_branch_names) ==
    IF base_branch_names = <<>> THEN repo
    ELSE checkout_bases_in(checkout_and_create_branch(repo, Head(base_branch_names)),
                           Tail(base_branch_names))

\* github_handler.py:271-294 and 325 with SwaggerToSdkCore.py:109-121: the
\* clone, the checkouts of the bases, the checkout of the destination branch
\* when it exists, and its creation by do_commit when there is a diff
sdk_checkouts(origin, fallback, branch_name, base_branch_names, diff, commit_message) ==
    LET r1 == checkout_bases_in(clone(origin, fallback), base_branch_names)
        r2 == IF branch_name \in DOMAIN r1.local \cup r1.origin
              THEN checkout_and_create_branch(r1, branch_name)
              ELSE r1
        worktree == IF diff THEN GeneratedTree ELSE tree_of(r2, r2.head)
        message == DEFAULT_COMMIT_MESSAGE \o <<" -- ">> \o commit_message
    IN do_commit(r2, message, branch_name, "abc123", worktree)

\* the pushes with the fallback base among them
git_push_fallback(r, fallback, branch_name, base_branch_names) ==
    IF r.raised THEN {}
    ELSE IF r.result THEN {fallback} \cup Range(base_branch_names) \cup {branch_name}
    ELSE {}

\* github_handler.py:325-329: the branches pushed to origin, r being what
\* do_commit left
git_push(r, fallback, branch_name, base_branch_names) ==
    IF r.raised THEN {}
    ELSE IF r.result THEN Range(base_branch_names) \cup {branch_name}
    ELSE {}

\* the commit of each branch of origin, before the pushes and after them
remote_before(origin) == [ b \in origin |-> b ]

remote_after(origin, repo, pushed) ==
    [ b \in origin \cup pushed |-> IF b \in pushed THEN repo.local[b] ELSE b ]

\* the branches origin may hold besides the SDK trunk when the event comes
Origins(body) ==
    { {SdkBase} \cup s :
        s \in SUBSET { "restapi_auto_dns", "restapi_auto_" \o body.base_ref,
                       from_pr_webhook(body, SdkBase).head_branch_name } }

\* github.py:184-210 and github_handler.py:271-325: the generation of the
\* open handler for a fork PR
CallGenerate(body, context_tags, origin, diff, commit_message) ==
    LET sdk_pr_model == from_pr_webhook(body, SdkBase)
        bases == checkout_bases(body, context_tags, sdk_pr_model.base_branch_name)
        r == sdk_checkouts(origin, SdkBase, sdk_pr_model.head_branch_name, bases,
                           diff, commit_message)
        pushed == git_push(r, SdkBase, sdk_pr_model.head_branch_name, bases)
    IN /\ IsFork(body)
       /\ origin \in Origins(body)
       /\ call' = [ fn |-> "generate_sdk_from_git_object",
                    branch_name |-> sdk_pr_model.head_branch_name,
                    sdk_base |-> sdk_pr_model.base_branch_name,
                    base_branch_names |-> bases,
                    fallback |-> SdkBase,
                    repo |-> r.repo,
                    committed |-> ~r.raised /\ r.result,
                    raised |-> r.raised,
                    pushed |-> pushed,
                    before |-> remote_before(origin),
                    after |-> remote_after(origin, r.repo, pushed) ]
       /\ UNCHANGED <<queue, gh, src, last, req, wk, enq, begun, ended, logged, recv>>

\* github.py:100-126 and github_handler.py:271-329: the generation of the
\* push handler, for a push to rest_api_branch_name with sdkbase fallback
CallGeneratePush(rest_api_branch_name, fallback, others, diff, commit_message) ==
    LET origin == {fallback} \cup others
        branch_name == "restapi_auto_" \o rest_api_branch_name
        r == sdk_checkouts(origin, fallback, branch_name, <<>>, diff, commit_message)
        pushed == git_push(r, fallback, branch_name, <<>>)
    IN /\ call' = [ fn |-> "generate_sdk_from_git_object",
                    branch_name |-> branch_name,
                    sdk_base |-> fallback,
                    base_branch_names |-> <<>>,
                    fallback |-> fallback,
                    repo |-> r.repo,
                    committed |-> ~r.raised /\ r.result,
                    raised |-> r.raised,
                    pushed |-> pushed,
                    before |-> remote_before(origin),
                    after |-> remote_after(origin, r.repo, pushed) ]
       /\ UNCHANGED <<queue, gh, src, last, req, wk, enq, begun, ended, logged, recv>>

GitNext ==
    \/ \E body \in Events, context_tags \in ReachingTagLists, diff \in BOOLEAN,
          origin \in UNION { Origins(b) : b \in Events },
          commit_message \in CommitMessages :
             CallGenerate(body, context_tags, origin, diff, commit_message)
    \/ \E rest_api_branch_name \in {"feature", "dev"}, fallback \in FallbackBases,
          others \in SUBSET {"restapi_auto_feature", "restapi_auto_dev"},
          diff \in BOOLEAN, commit_message \in CommitMessages :
             CallGeneratePush(rest_api_branch_name, fallback, others, diff,
                              commit_message)

GitSpec == NameInit /\ [][GitNext]_vars

(***************************************************************************)
(* ResolveSpec: the context resolver, get_context_tag_from_git_object of   *)
(* github.py:156, called on the changed paths of a source PR.  A path is   *)
(* the sequence of its segments.                                           *)
(***************************************************************************)
\* the segments that name a versioned vendor, a stability channel, a readme
Vendors == {"Microsoft.Network"}
Channels == {"stable", "preview"}
Readmes == {"readme.md"}

\* the changed paths a source PR may hold
ChangedPaths ==
    { <<"specification", "dns", "resource-manager", "readme.md">>,
      <<"specification", "dns", "resource-manager", "Microsoft.Network", "stable",
        "2018-05-01", "dns.json">>,
      <<"specification", "foo", "stable", "2020-01-01", "a.json">>,
      <<"specification", "foo", "stable", "2020-01-01", "b.json">>,
      <<"specification", "web", "preview", "readme.md">>,
      <<"README.md">>,
      <<"documentation", "stable", "readme.md">> }

\* segments lo .. hi of path, joined with "/"
RECURSIVE joined(_, _, _)
joined(path, lo, hi) ==
    IF lo > hi THEN ""
    ELSE IF lo = hi THEN path[lo]
    ELSE path[lo] \o "/" \o joined(path, lo + 1, hi)

\* (a) specification/<tag>/<vendor>/<channel>/...: the positions of the vendor
versioned_at(path) ==
    { i \in 3 .. Len(path) - 2 :
        /\ path[1] = "specification" /\ path[i] \in Vendors
        /\ path[i + 1] \in Channels }

\* (b) specification/<tag>/<channel>/...: the positions of the channel
channel_at(path) ==
    { i \in 3 .. Len(path) - 1 : path[1] = "specification" /\ path[i] \in Channels }

\* (c) specification/<tag>/readme.md
readme_at(path) ==
    { i \in 3 .. Len(path) : path[1] = "specification" /\ path[i] \in Readmes }

\* the greatest position of a set of positions
greatest(positions) == CHOOSE i \in positions : \A j \in positions : j <= i

\* the tags of one path with every pattern applied
path_tags_every_pattern(path) ==
    { joined(path, 2, greatest(m) - 1) :
        m \in { n \in {versioned_at(path), channel_at(path), readme_at(path)} : n # {} } }

\* the tags of one path: those of the first pattern that matches
path_tags(path) ==
    IF versioned_at(path) # {} THEN { joined(path, 2, greatest(versioned_at(path)) - 1) }
    ELSE IF channel_at(path) # {} THEN { joined(path, 2, greatest(channel_at(path)) - 1) }
    ELSE IF readme_at(path) # {} THEN { joined(path, 2, greatest(readme_at(path)) - 1) }
    ELSE {}

\* resolve(changed_paths): the union of the per-path results
resolve(changed_paths) == UNION { path_tags(p) : p \in changed_paths }

CallResolve(changed_paths) ==
    /\ call' = [ fn |-> "resolve", changed_paths |-> changed_paths,
                 result |-> resolve(changed_paths) ]
    /\ UNCHANGED <<queue, gh, src, last, req, wk, enq, begun, ended, logged, recv>>

ResolveNext == \E changed_paths \in SUBSET ChangedPaths : CallResolve(changed_paths)

ResolveSpec == NameInit /\ [][ResolveNext]_vars

(***************************************************************************)
(* PrSpec: do_pr of SwaggerToSdkCore.py:251-288 called again and again on  *)
(* the hosting service.  A repo id is the sequence of its parts between    *)
(* the slashes.                                                            *)
(***************************************************************************)
\* what create_pull answers: the pull request, or the error of the fault
\* ("invalid": 422 with another message, "nomessage": 422 whose first error
\* has no message, "server": another status), or 422 'A pull request
\* already exists' for an open pull request of the same head and base
hosting_create_pull(prs, head, base, fault) ==
    IF fault # "none" THEN [ prs |-> prs, err |-> fault ]
    ELSE IF \E p \in prs : p.head = head /\ p.base = base /\ p.state = "open"
    THEN [ prs |-> prs, err |-> "exists" ]
    ELSE [ prs |-> prs \cup {[ number |-> Cardinality(prs) + 1, head |-> head,
                               base |-> base, state |-> "open", labels |-> {},
                               is_merged |-> FALSE ]},
           err |-> "none" ]

\* SwaggerToSdkCore.py:263-268
head_name(sdk_git_id, branch_name) ==
    IF Len(sdk_git_id) > 1 THEN sdk_git_id[1] \o ":" \o branch_name ELSE branch_name

\* do_pr returning on every 422
do_pr_any_422(prs, gh_token, sdk_git_id, sdk_pr_target_repo_id, branch_name, base_branch, fault) ==
    LET r == hosting_create_pull(prs, head_name(sdk_git_id, branch_name), base_branch, fault)
    IN IF gh_token = None \/ sdk_pr_target_repo_id = None
       THEN [ prs |-> prs, raised |-> "none", comments |-> 0 ]
       ELSE IF sdk_pr_target_repo_id # SdkId
       THEN [ prs |-> prs, raised |-> "UnknownObjectException", comments |-> 0 ]
       ELSE IF r.err = "none" THEN [ prs |-> r.prs, raised |-> "none", comments |-> 1 ]
       ELSE IF r.err \in {"exists", "invalid", "nomessage"}
       THEN [ prs |-> prs, raised |-> "none", comments |-> 0 ]
       ELSE [ prs |-> prs, raised |-> "GithubException", comments |-> 0 ]

\* SwaggerToSdkCore.py:251-288; comments counts the comment on the initial PR
do_pr(prs, gh_token, sdk_git_id, sdk_pr_target_repo_id, branch_name, base_branch, fault) ==
    LET r == hosting_create_pull(prs, head_name(sdk_git_id, branch_name), base_branch, fault)
    IN IF gh_token = None \/ sdk_pr_target_repo_id = None
       THEN [ prs |-> prs, raised |-> "none", comments |-> 0 ]
       ELSE IF sdk_pr_target_repo_id # SdkId
       THEN [ prs |-> prs, raised |-> "UnknownObjectException", comments |-> 0 ]
       ELSE IF r.err = "none" THEN [ prs |-> r.prs, raised |-> "none", comments |-> 1 ]
       ELSE IF r.err = "exists" THEN [ prs |-> prs, raised |-> "none", comments |-> 0 ]
       ELSE IF r.err = "nomessage" THEN [ prs |-> prs, raised |-> "KeyError", comments |-> 0 ]
       ELSE [ prs |-> prs, raised |-> "GithubException", comments |-> 0 ]

CallDoPr(gh_token, sdk_git_id, sdk_pr_target_repo_id, branch_name, base_branch, fault) ==
    LET r == do_pr(gh.prs, gh_token, sdk_git_id, sdk_pr_target_repo_id, branch_name,
                   base_branch, fault)
    IN /\ Cardinality(r.prs) <= MaxPulls
       /\ gh' = [gh EXCEPT !.prs = r.prs]
       /\ call' = [ fn |-> "do_pr", gh_token |-> gh_token, sdk_git_id |-> sdk_git_id,
                    sdk_pr_target_repo_id |-> sdk_pr_target_repo_id,
                    branch_name |-> branch_name, base_branch |-> base_branch,
                    fault |-> fault, before |-> gh.prs, raised |-> r.raised,
                    comments |-> r.comments ]
       /\ UNCHANGED <<queue, src, last, req, wk, enq, begun, ended, logged, recv>>

PrNext ==
    \E gh_token \in {None, "token"},
       sdk_git_id \in { <<"lmazuel", "azure-sdk-for-python">>, <<"bad">> },
       sdk_pr_target_repo_id \in {None, SdkId, "bad"},
       branch_name \in {"restapi_auto_feature"},
       base_branch \in {"master", "bad"},
       fault \in {"none", "invalid", "nomessage", "server"} :
          CallDoPr(gh_token, sdk_git_id, sdk_pr_target_repo_id, branch_name,
                   base_branch, fault)

PrSpec == NameInit /\ [][PrNext]_vars

(***************************************************************************)
(* OptionsSpec: merge_options of src/SwaggerToSdkCore.py:50-64.  A         *)
(* configuration is the set of its <<key, value>> items; a value is a list *)
(* (a sequence) or a dict (a set of <<key, value>> items); what dict.get    *)
(* answers is <<>> for None and <<value>> for a value.                     *)
(***************************************************************************)
ListValues ==
    { [ type |-> "list", v |-> l ] :
        l \in { <<>>, <<"1">>, <<"1", "2", "3">>, <<"3", "4", "5">>, <<"3", "3">> } }

DictValues ==
    { [ type |-> "dict", v |-> d ] :
        d \in { {}, { <<"1", "2">> }, { <<"1", "2">>, <<"2", "3">> },
                { <<"3", "4">>, <<"2", "3">> }, { <<"2", "9">> } } }

\* the configurations with at most the key "a", its value among values
Confs(values) == { {} } \cup { { <<"a", v>> } : v \in values }

\* conf.get(key)
get(conf, key) ==
    IF \E item \in conf : item[1] = key
    THEN << (CHOOSE item \in conf : item[1] = key)[2] >>
    ELSE <<>>

\* the truth value of a list or dict: whether it is not empty
truthy(value) == IF value.type = "dict" THEN value.v # {} ELSE value.v # <<>>

\* a or b, of two answers of dict.get
py_or(a, b) == IF a # <<>> /\ truthy(a[1]) THEN a ELSE b

\* set(global_keyed_conf) or dict(global_keyed_conf), then update(local)
updated(global_keyed_conf, local_keyed_conf) ==
    IF global_keyed_conf.type = "list"
    THEN [ type |-> "set",
           v |-> Range(global_keyed_conf.v) \cup Range(local_keyed_conf.v) ]
    ELSE [ type |-> "dict",
           v |-> { item \in global_keyed_conf.v :
                     \A other \in local_keyed_conf.v : other[1] # item[1] }
                 \cup local_keyed_conf.v ]

\* the merge done in the value of the global configuration, not in a copy
merge_options_in_place(global_conf, local_conf, key) ==
    LET global_keyed_conf == get(global_conf, key)
        local_keyed_conf == get(local_conf, key)
        options == updated(global_keyed_conf[1], local_keyed_conf[1])
    IN IF global_keyed_conf = <<>> \/ local_keyed_conf = <<>>
       THEN [ result |-> py_or(global_keyed_conf, local_keyed_conf),
              global_conf |-> global_conf, local_conf |-> local_conf ]
       ELSE [ result |-> <<options>>,
              global_conf |-> { item \in global_conf : item[1] # key }
                              \cup { <<key, options>> },
              local_conf |-> local_conf ]

\* src/SwaggerToSdkCore.py:50-64: the result, and the two configurations
\* as the call leaves them
merge_options(global_conf, local_conf, key) ==
    LET global_keyed_conf == get(global_conf, key)
        local_keyed_conf == get(local_conf, key)
    IN IF global_keyed_conf = <<>> \/ local_keyed_conf = <<>>
       THEN [ result |-> py_or(global_keyed_conf, local_keyed_conf),
              global_conf |-> global_conf, local_conf |-> local_conf ]
       ELSE [ result |-> << updated(global_keyed_conf[1], local_keyed_conf[1]) >>,
              global_conf |-> global_conf, local_conf |-> local_conf ]

CallMergeOptions(global_conf, local_conf, key) ==
    LET r == merge_options(global_conf, local_conf, key)
    IN /\ call' = [ fn |-> "merge_options", global_conf |-> global_conf,
                    local_conf |-> local_conf, key |-> key,
                    result |-> r.result, global_after |-> r.global_conf,
                    local_after |-> r.local_conf ]
       /\ UNCHANGED <<queue, gh, src, last, req, wk, enq, begun, ended, logged, recv>>

OptionsNext ==
    \/ \E global_conf \in Confs(ListValues), local_conf \in Confs(ListValues),
          key \in {"a", "key"} : CallMergeOptions(global_conf, local_conf, key)
    \/ \E global_conf \in Confs(DictValues), local_conf \in Confs(DictValues),
          key \in {"a", "key"} : CallMergeOptions(global_conf, local_conf, key)

OptionsSpec == NameInit /\ [][OptionsNext]_vars

(***************************************************************************)
(* TravisSpec: the projects generate_sdk builds, in the package            *)
(* (swaggertosdk/SwaggerToSdkMain.py:41-120) and in the script             *)
(* (src/SwaggerToSdk.py:580-660).  A project name and a --project pattern  *)
(* are sequences of name parts; files is what the trigger (the PR, or in   *)
(* the package the Travis commit) holds of the inputs of the projects.     *)
(***************************************************************************)
Projects == { <<"azure", "mgmt", "dns">>, <<"azure", "mgmt", "web">> }

\* get_input_paths: the markdown and the optional inputs of a project
markdown_relative_path(project) ==
    IF project[3] = "dns" THEN "specification/dns/readme.md"
    ELSE "specification/web/readme.md"

optional_relative_paths(project) ==
    IF project[3] = "dns" THEN {"specification/dns/readme.python.md"} ELSE {}

SwaggerFiles ==
    { "specification/dns/readme.python.md", "specification/web/readme.md",
      "specification/sql/readme.md" }

\* the values of --project: none, one project, a prefix of both
ProjectPatterns ==
    { <<>>, << <<"azure", "mgmt", "dns">> >>, << <<"azure", "mgmt">> >> }

\* project.startswith(p)
startswith(project, p) ==
    Len(p) <= Len(project) /\ \A i \in 1 .. Len(p) : project[i] = p[i]

\* the project pattern test of both skip tests
pattern_skips(project_pattern, project) ==
    /\ project_pattern # <<>>
    /\ ~\E i \in DOMAIN project_pattern : startswith(project, project_pattern[i])

\* none of the inputs of the project is among files
no_input_in(files, project) ==
    /\ markdown_relative_path(project) \notin files
    /\ optional_relative_paths(project) \cap files = {}

\* SwaggerToSdkMain.py:76-79: get_initial_pr, or the commit Travis builds
initial_git_trigger(travis, pr_detected) ==
    IF pr_detected THEN "pr" ELSE IF travis THEN "commit" ELSE None

\* SwaggerToSdkMain.py:82-96
skip_callback(travis, project_pattern, swagger_files_in_pr, project) ==
    IF travis /\ swagger_files_in_pr = {} THEN TRUE
    ELSE IF pattern_skips(project_pattern, project) THEN TRUE
    ELSE swagger_files_in_pr # {} /\ no_input_in(swagger_files_in_pr, project)

\* SwaggerToSdkMain.py:76-106: the projects not skipped
generate_sdk(travis, pr_detected, files, project_pattern) ==
    LET swagger_files_in_pr ==
            IF initial_git_trigger(travis, pr_detected) # None THEN files ELSE {}
    IN { project \in Projects :
           ~skip_callback(travis, project_pattern, swagger_files_in_pr, project) }

\* src/SwaggerToSdk.py:610-627: the projects the script does not skip
build_libraries(pr_detected, files, project_pattern) ==
    LET swagger_files_in_pr == IF pr_detected THEN files ELSE {}
    IN { project \in Projects :
           /\ ~pattern_skips(project_pattern, project)
           /\ ~(pr_detected /\ no_input_in(swagger_files_in_pr, project)) }

CallGenerateSdk(travis, pr_detected, files, project_pattern) ==
    /\ pr_detected => travis
    /\ call' = [ fn |-> "generate_sdk", travis |-> travis, pr_detected |-> pr_detected,
                 files |-> files, project_pattern |-> project_pattern,
                 generated |-> generate_sdk(travis, pr_detected, files, project_pattern) ]
    /\ UNCHANGED <<queue, gh, src, last, req, wk, enq, begun, ended, logged, recv>>

CallBuildLibraries(travis, pr_detected, files, project_pattern) ==
    /\ pr_detected => travis
    /\ call' = [ fn |-> "build_libraries", travis |-> travis, pr_detected |-> pr_detected,
                 files |-> files, project_pattern |-> project_pattern,
                 generated |-> build_libraries(pr_detected, files, project_pattern) ]
    /\ UNCHANGED <<queue, gh, src, last, req, wk, enq, begun, ended, logged, recv>>

TravisNext ==
    \/ \E travis \in BOOLEAN, pr_detected \in BOOLEAN, files \in SUBSET SwaggerFiles,
          project_pattern \in ProjectPatterns :
             CallGenerateSdk(travis, pr_detected, files, project_pattern)
    \/ \E travis \in BOOLEAN, pr_detected \in BOOLEAN, files \in SUBSET SwaggerFiles,
          project_pattern \in ProjectPatterns :
             CallBuildLibraries(travis, pr_detected, files, project_pattern)

TravisSpec == NameInit /\ [][TravisNext]_vars

(***************************************************************************)
(* CommitSpec: do_commit of SwaggerToSdkCore.py:109-121 called again and   *)
(* again on one clone, as tests/test_git_tools.py does, the working tree   *)
(* edited before each call.                                                *)
(***************************************************************************)
\* the edits of file.txt between two calls: unlink and write_text
Texts == {"Something", "New content"}

EditOps ==
    { [ op |-> "unlink", text |-> None ] }
    \cup { [ op |-> "write_text", text |-> t ] : t \in Texts }

\* nothing edited, the file written, the file deleted, and the file deleted
\* and written again
EditLists ==
    {<<>>} \cup { <<a>> : a \in EditOps }
    \cup { <<a, b>> : a \in { e \in EditOps : e.op = "unlink" },
                      b \in { e \in EditOps : e.op = "write_text" } }

apply_edit(tree, e) ==
    LET others == { p \in tree : p[1] # "file.txt" }
    IN IF e.op = "unlink" THEN others ELSE others \cup { <<"file.txt", e.text>> }

RECURSIVE apply_edits(_, _)
apply_edits(tree, edits) ==
    IF edits = <<>> THEN tree
    ELSE apply_edits(apply_edit(tree, Head(edits)), Tail(edits))

\* the templates of the test and those generate_sdk_from_git_object makes
\* of DEFAULT_COMMIT_MESSAGE and a commit message (github_handler.py:323)
Templates ==
    { <<"Test ", "{hexsha}">> }
    \cup { DEFAULT_COMMIT_MESSAGE \o <<" -- ">> \o m : m \in CommitMessages }

\* the commit at the tip of branch name, None when the clone and origin have
\* no such branch
tip(repo, name) ==
    IF name \in DOMAIN repo.local THEN repo.local[name]
    ELSE IF name \in repo.origin THEN name ELSE None

\* one call of do_commit; git checks a branch out over a changed working
\* tree when the branch is new or its tree is that of HEAD
CallDoCommit(message_template, branch_name, hexsha, edits, origin) ==
    LET before == IF call.fn = "do_commit" THEN call.repo ELSE clone(origin, "master")
        worktree == apply_edits(tree_of(before, before.head), edits)
        r == do_commit(before, message_template, branch_name, hexsha, worktree)
    IN /\ \/ tip(before, branch_name) = None
          \/ tree_of(before, tip(before, branch_name)) = tree_of(before, before.head)
       /\ Len(r.repo.commits) <= MaxCommits
       /\ call' = [ fn |-> "do_commit", before |-> before,
                    message_template |-> message_template,
                    branch_name |-> branch_name, hexsha |-> hexsha,
                    edits |-> edits, worktree |-> worktree,
                    repo |-> r.repo, result |-> r.result, raised |-> r.raised ]
       /\ UNCHANGED <<queue, gh, src, last, req, wk, enq, begun, ended, logged, recv>>

CommitNext ==
    \E message_template \in Templates, branch_name \in {"master", "testing"},
       hexsha \in {"fakehexsha", "abc123"}, edits \in EditLists,
       origin \in { {"master"}, {"master", "testing"} } :
          CallDoCommit(message_template, branch_name, hexsha, edits, origin)

CommitSpec == NameInit /\ [][CommitNext]_vars

(***************************************************************************)
(* QueueSpec: the request threads and the consumers, step by step.         *)
(* A request thread runs rest_notify: the worker check (is_alive, start),  *)
(* then the handler of the event; _QUEUE.put blocks while the queue is     *)
(* full.  A consumer runs consume: get, then the pass, which may reach the *)
(* generation, and ends by returning or raising.                           *)
(***************************************************************************)
\* github.py:134, the default of repotag
SdkTag == "azure-sdk-for-python"

QueueBodies == { Body("opened", FALSE, FALSE), Body("closed", TRUE, FALSE) }

\* github.py:137, the tuple put on the queue
Item(body, sdkid) == <<body, sdkid, SdkBase, SdkTag>>

\* the deliveries: event type, sdkid of the query, body or pushed branch
Deliveries ==
    { <<"pull_request", SdkId, b>> : b \in QueueBodies }
    \cup { <<"pull_request", None, Body("opened", FALSE, FALSE)>>,
           <<"push", SdkId, "feature">>, <<"push", SdkId, "master">>,
           <<"push", None, "feature">>, <<"ping", None, None>> }

QueueInit ==
    /\ Init
    /\ src = [ fork |-> TRUE, base |-> "master" ]

Set(t, r) == req' = [req EXCEPT ![t] = r]

\* github.py:84-140: handle_github_webhook, notify_github and the handler of
\* delivery d, up to its first wait or long step; the other handlers answer
\* at once
Dispatched(d) ==
    IF d[1] = "ping" THEN IdleReq
    ELSE IF d[2] = None THEN IdleReq
    ELSE IF d[1] = "push"
    THEN IF d[3] = "master" THEN IdleReq
         ELSE [ pc |-> "pushgen", item |-> None ]
    ELSE [ pc |-> "put", item |-> Item(d[3], d[2]) ]

\* github.py:67-75: delivery d reaches rest_notify on request thread t, which
\* tests _WORKER_THREAD.is_alive()
Receive(t, d) ==
    /\ req[t].pc = "idle"
    /\ recv < MaxDeliveries
    /\ recv' = recv + 1
    /\ Set(t, IF wk # <<>> THEN Dispatched(d) ELSE [ pc |-> "start", item |-> d ])
    /\ UNCHANGED <<call, queue, gh, src, last, wk, enq, begun, ended, logged>>

\* a worker start that makes a new thread each time
StartFresh(t) ==
    /\ req[t].pc = "start"
    /\ wk' = Append(wk, [ pc |-> "get", cur |-> None ])
    /\ Set(t, Dispatched(req[t].item))
    /\ UNCHANGED <<call, queue, gh, src, last, enq, begun, ended, logged, recv>>

\* github.py:76: _WORKER_THREAD.start(); a RuntimeError ends the request when
\* the thread was started meanwhile
Start(t) ==
    /\ req[t].pc = "start"
    /\ IF wk # <<>>
       THEN /\ Set(t, IdleReq)
            /\ wk' = wk
       ELSE /\ wk' = Append(wk, [ pc |-> "get", cur |-> None ])
            /\ Set(t, Dispatched(req[t].item))
    /\ UNCHANGED <<call, queue, gh, src, last, enq, begun, ended, logged, recv>>

\* an enqueue that gives up when the queue is full
PutDrop(t) ==
    /\ req[t].pc = "put"
    /\ Len(queue) >= MaxQueue
    /\ Set(t, [req[t] EXCEPT !.pc = "size"])
    /\ UNCHANGED <<call, queue, gh, src, last, wk, enq, begun, ended, logged, recv>>

\* github.py:137: _QUEUE.put finds the queue full and waits for room
PutWait(t) ==
    /\ req[t].pc = "put"
    /\ Len(queue) >= MaxQueue
    /\ Set(t, [req[t] EXCEPT !.pc = "wait"])
    /\ UNCHANGED <<call, queue, gh, src, last, wk, enq, begun, ended, logged, recv>>

\* github.py:137: _QUEUE.put appends the item once there is room
Put(t) ==
    /\ req[t].pc \in {"put", "wait"}
    /\ Len(queue) < MaxQueue
    /\ queue' = Append(queue, req[t].item)
    /\ enq' = Append(enq, req[t].item)
    /\ Set(t, [req[t] EXCEPT !.pc = "size"])
    /\ UNCHANGED <<call, gh, src, last, wk, begun, ended, logged, recv>>

\* github.py:138-140: _QUEUE.qsize() is read and sent as the answer
QSize(t) ==
    /\ req[t].pc = "size"
    /\ Set(t, IdleReq)
    /\ UNCHANGED <<call, queue, gh, src, last, wk, enq, begun, ended, logged, recv>>

\* github.py:118-127: the generation of a push delivery ends, on its request
\* thread, by returning or raising
PushEnd(t) ==
    /\ req[t].pc = "pushgen"
    /\ Set(t, IdleReq)
    /\ UNCHANGED <<call, queue, gh, src, last, wk, enq, begun, ended, logged, recv>>

\* github.py:414-417: _QUEUE.get() and the call of rest_handle_action
Get(i) ==
    /\ wk[i].pc = "get"
    /\ queue # <<>>
    /\ wk' = [wk EXCEPT ![i] = [ pc |-> "handle", cur |-> Head(queue) ]]
    /\ queue' = Tail(queue)
    /\ begun' = Append(begun, Head(queue))
    /\ UNCHANGED <<call, gh, src, last, req, enq, ended, logged, recv>>

\* github.py:202, 396: the pass reaches generate_sdk_from_git_object
Generate(i) ==
    /\ wk[i].pc = "handle"
    /\ wk' = [wk EXCEPT ![i].pc = "gen"]
    /\ UNCHANGED <<call, queue, gh, src, last, req, enq, begun, ended, logged, recv>>

\* a consumer that an exception of the pass ends
EndDies(i, raised) ==
    /\ wk[i].pc \in {"handle", "gen"}
    /\ wk' = [wk EXCEPT ![i] = [ pc |-> IF raised THEN "dead" ELSE "get",
                                 cur |-> None ]]
    /\ ended' = ended + 1
    /\ logged' = logged
    /\ UNCHANGED <<call, queue, gh, src, last, req, enq, begun, recv>>

\* a consumer that puts the item of a failed pass back
EndRetries(i, raised) ==
    /\ wk[i].pc \in {"handle", "gen"}
    /\ wk' = [wk EXCEPT ![i] = [ pc |-> "get", cur |-> None ]]
    /\ ended' = ended + 1
    /\ logged' = IF raised THEN logged + 1 ELSE logged
    /\ queue' = IF raised /\ Len(queue) < MaxQueue
                THEN Append(queue, wk[i].cur) ELSE queue
    /\ UNCHANGED <<call, gh, src, last, req, enq, begun, recv>>

\* github.py:416-419: the pass returns, or raises and the exception is logged
End(i, raised) ==
    /\ wk[i].pc \in {"handle", "gen"}
    /\ wk' = [wk EXCEPT ![i] = [ pc |-> "get", cur |-> None ]]
    /\ ended' = ended + 1
    /\ logged' = IF raised THEN logged + 1 ELSE logged
    /\ UNCHANGED <<call, queue, gh, src, last, req, enq, begun, recv>>

ConsumerStep ==
    \E i \in DOMAIN wk : Get(i) \/ Generate(i) \/ \E raised \in BOOLEAN : End(i, raised)

QueueNext ==
    \/ \E t \in Threads, d \in Deliveries : Receive(t, d)
    \/ \E t \in Threads : Start(t)
    \/ \E t \in Threads : PutWait(t)
    \/ \E t \in Threads : Put(t)
    \/ \E t \in Threads : QSize(t)
    \/ \E t \in Threads : PushEnd(t)
    \/ \E i \in DOMAIN wk : Get(i)
    \/ \E i \in DOMAIN wk : Generate(i)
    \/ \E i \in DOMAIN wk, raised \in BOOLEAN : End(i, raised)

QueueSpec == QueueInit /\ [][QueueNext]_vars

\* the consumers run whenever they can: consume is a thread of its own
QueueFairSpec == QueueSpec /\ WF_vars(ConsumerStep)

(***************************************************************************)
(* PushRaceSpec: the deliveries of a source PR opened from a branch of the *)
(* spec repo itself.  The push delivery of the branch generates on its     *)
(* request thread and pushes restapi_auto_<branch> when it ends; the       *)
(* pull_request deliveries go through _QUEUE to the consumer.  Here gh     *)
(* also holds the branches of the SDK repo.                                *)
(***************************************************************************)
RaceDeliveries ==
    { <<"pull_request", SdkId, Body("opened", FALSE, FALSE)>>,
      <<"push", SdkId, "feature">> }

\* the answers of the generation of a push delivery, and of a pass
RacePushEnvs == { e \in PushEnvs : e.fault \in {"none", "gen"} }
RacePassEnvs ==
    { e \in Envs : e.fault = "none" /\ e.tags \in ReachingTagLists
                   /\ e.diff /\ ~e.mergeable }

\* heads: the branches of the SDK repo when the pass or handler began;
\* attempted: the heads given to repo.create_pull
RaceNoLast ==
    [ kind |-> "none", action |-> None, merged |-> FALSE, ntags |-> 0,
      fault |-> "none", diff |-> FALSE, raised |-> FALSE, log |-> NoLog,
      pre |-> {}, same |-> FALSE, heads |-> {}, attempted |-> {} ]

RaceInit ==
    /\ queue = <<>>
    /\ gh = [ prs |-> {}, labels |-> {}, logins |-> Logins, branches |-> {} ]
    /\ src = [ fork |-> FALSE, base |-> "master" ]
    /\ last = RaceNoLast
    /\ req = [ t \in Threads |-> IdleReq ]
    /\ wk = <<>>
    /\ enq = <<>>
    /\ begun = <<>>
    /\ ended = 0
    /\ logged = 0
    /\ recv = 0
    /\ call = NoCall

\* the head "owner:branch" names a branch of the SDK repo
has_branch(branches, head) ==
    \E b \in branches : head = SdkOwner \o ":" \o b

\* the heads of the pull requests the pass r had created
created_heads(r) == { e.head : e \in { x \in r.w.log.ensured : x.created } }

\* github.py:219-226, "Let it raise at worst": repo.create_pull is refused
\* (422) for a head branch the SDK repo does not have; the exception leaves
\* rest_pull_open and exception_to_github reports it, nothing being created
head_checked(r, w, branches) ==
    IF \A h \in created_heads(r) : has_branch(branches, h)
    THEN r
    ELSE exception_to_github(
            [ w |-> [w EXCEPT !.log.lookups = 1, !.log.creates = 1,
                              !.log.targets = r.w.log.targets],
              raised |-> TRUE ])

\* github.py:118-127: the generation of the push delivery ends on its
\* request thread; with a diff the branch restapi_auto_<branch> is pushed
RacePushEnd(t, env) ==
    LET r == push(World(env), SdkId, "feature", env)
    IN /\ req[t].pc = "pushgen"
       /\ Set(t, IdleReq)
       /\ gh' = [gh EXCEPT !.branches = @ \cup r.w.log.pushed]
       /\ last' = [ kind |-> "push", action |-> None, merged |-> FALSE,
                    ntags |-> 0, fault |-> env.fault, diff |-> env.diff,
                    raised |-> r.raised, log |-> r.w.log, pre |-> OpenPulls(gh.prs),
                    same |-> FALSE, heads |-> gh.branches, attempted |-> {} ]
       /\ UNCHANGED <<call, queue, src, wk, enq, begun, ended, logged, recv>>

\* rest_handle_action under a hosting service that checks the head branch;
\* attempted: the heads the pass gave to repo.create_pull
race_pass(body, w, sdkbase, env, branches) ==
    [ r |-> head_checked(rest_handle_action(body, w, sdkbase, env), w, branches),
      attempted |-> created_heads(rest_handle_action(body, w, sdkbase, env)) ]

\* the end of the pass p of body
RaceEnded(i, body, env, p) ==
    /\ wk[i].pc = "handle"
    /\ Cardinality(p.r.w.prs) <= MaxPulls
    /\ wk' = [wk EXCEPT ![i] = [ pc |-> "get", cur |-> None ]]
    /\ ended' = ended + 1
    /\ gh' = [gh EXCEPT !.prs = p.r.w.prs, !.labels = p.r.w.labels]
    /\ last' = [ kind |-> "pass", action |-> body.action, merged |-> body.merged,
                 ntags |-> Len(env.tags), fault |-> env.fault, diff |-> env.diff,
                 raised |-> p.r.raised, log |-> p.r.w.log, pre |-> OpenPulls(gh.prs),
                 same |-> body.before_is_after, heads |-> gh.branches,
                 attempted |-> p.attempted ]
    /\ UNCHANGED <<call, queue, src, req, enq, begun, logged, recv>>

\* github.py:416-419: the pass of the item the consumer took, as one step
RaceEnd(i, env) ==
    RaceEnded(i, wk[i].cur[1], env,
              race_pass(wk[i].cur[1], World(env), wk[i].cur[3], env, gh.branches))

PushRaceNext ==
    \/ \E t \in Threads, d \in RaceDeliveries : Receive(t, d)
    \/ \E t \in Threads : Start(t)
    \/ \E t \in Threads : PutWait(t)
    \/ \E t \in Threads : Put(t)
    \/ \E t \in Threads : QSize(t)
    \/ \E t \in Threads, env \in RacePushEnvs : RacePushEnd(t, env)
    \/ \E i \in DOMAIN wk : Get(i)
    \/ \E i \in DOMAIN wk, env \in RacePassEnvs : RaceEnd(i, env)

PushRaceSpec == RaceInit /\ [][PushRaceNext]_vars

(***************************************************************************)
(* SeveralSpec: the passes of 'closed' events when the hosting service     *)
(* holds two open pull requests of one (head, base) pair, the case of      *)
(* github.py:361-364.                                                      *)
(***************************************************************************)
\* an open pull request as the hosting service holds it
OpenPull(number, head, base, labels) ==
    [ number |-> number, head |-> head, base |-> base, state |-> "open",
      labels |-> labels, is_merged |-> FALSE ]

\* two open pull requests of one pair, labelled or not by earlier passes
SeveralPulls ==
    { { OpenPull(1, SdkOwner \o ":" \o h, b, l1), OpenPull(2, SdkOwner \o ":" \o h, b, l2) } :
        h \in {"restapi_auto_feature", "restapi_auto_" \o ForkOwner \o "_feature"},
        b \in {"master", "restapi_auto_dns", "restapi_auto_dev"},
        l1 \in {{}, {in_progress}}, l2 \in {{}, {in_progress}} }

SeveralInit ==
    /\ queue = <<>>
    /\ src \in [ fork : BOOLEAN, base : {"master", "dev"} ]
    /\ gh \in { [ prs |-> ps, labels |-> {}, logins |-> Logins ] : ps \in SeveralPulls }
    /\ last = NoLast
    /\ req = [ t \in Threads |-> IdleReq ]
    /\ wk = <<>>
    /\ enq = <<>>
    /\ begun = <<>>
    /\ ended = 0
    /\ logged = 0
    /\ recv = 0
    /\ call = NoCall

SeveralEnvs == { e \in Envs : e.fault = "none" /\ e.tags \in ReachingTagLists }

SeveralNext ==
    \E m \in BOOLEAN, env \in SeveralEnvs : Consume(Body("closed", m, FALSE), env)

SeveralSpec == SeveralInit /\ [][SeveralNext]_vars

(***************************************************************************)
(* BotSpec: the endpoint /github, bot_framework.py and sdkbot.py.  The     *)
(* hosting service sends an issue_comment delivery for every comment, the  *)
(* comments of the bot included; here gh holds the deliveries caused by    *)
(* the bot's own comments that are not handled yet.  A text is the         *)
(* sequence of its words, separated by one space each (an empty word is a  *)
(* second space), on one line.                                             *)
(***************************************************************************)
\* bot_framework.py:72-75, the login of the account of GH_TOKEN
RobotName == "AutorestCI"

\* str.lower() on the words used here
lower(word) ==
    CASE word = "AutorestCI" -> "autorestci"
      [] word = "@AutorestCI" -> "@autorestci"
      [] word = "@AutorestCIx" -> "@autorestcix"
      [] word = "Help" -> "help"
      [] word = "REBUILD" -> "rebuild"
      [] OTHER -> word

\* the texts people write in comments and issues
BotTexts ==
    { <<"thanks">>,
      <<"@AutorestCI", "help">>,
      <<"ping", "@autorestci", "Help">>,
      <<"@AutorestCI", "rebase">>,
      <<"@AutorestCI", "REBUILD", "dns">>,
      <<"@AutorestCI", "generate", "readme.md">>,
      <<"@AutorestCI", "__init__">>,
      <<"@AutorestCI", "@AutorestCI", "help">>,
      <<"@AutorestCI", "rebuild", "@AutorestCI", "help">>,
      <<"@AutorestCI", "">>,
      <<"@AutorestCI">>,
      <<"@AutorestCIx", "help">> }

\* the logins of the senders: a person, the bot, the bot's login as typed
Senders == {"alice", RobotName, "autorestci"}

\* the bodies of the deliveries of people's (and other tools') activity
BotEvents ==
    [ type : {"issue_comment"}, action : {"created", "edited", "deleted"},
      sender : Senders, text : BotTexts ]
    \cup [ type : {"issues"}, action : {"opened", "closed"},
           sender : Senders, text : BotTexts ]

\* the delivery the hosting service sends for a comment of the bot
OwnEvent(text) ==
    [ type |-> "issue_comment", action |-> "created", sender |-> RobotName,
      text |-> text ]

\* what the handled issue is and whether the order's work fails
HandlerEnvs == [ pull_request : BOOLEAN, fails : BOOLEAN ]

\* sdkbot.py:44-198, dir(GithubHandler()): the attributes of the handler,
\* in the order of dir()
HandlerAttributes == <<"__init__", "generate", "gh_token", "rebase", "rebuild">>

\* bot_framework.py:42-44, sdkbot.py:49, 135 (78: generate is not tagged)
bot_order(attribute) == attribute \in {"rebase", "rebuild"}

\* orders with every method of the handler taken for an order
orders_untagged == SelectSeq(HandlerAttributes, LAMBDA a : a # "gh_token")

\* bot_framework.py:99-102
orders == SelectSeq(HandlerAttributes, bot_order)

\* a bot that answers its own comments
is_myself_never(body, robot_name) == FALSE

\* bot_framework.py:84-85
is_myself(body, robot_name) == lower(body.sender) = lower(robot_name)

\* bot_framework.py:51-70: the text of the event, <<>> for None
build_from_issue_comment(body) ==
    IF body.action \in {"created", "edited"} THEN <<body.text>> ELSE <<>>

build_from_issues(body) ==
    IF body.action \in {"opened"} THEN <<body.text>> ELSE <<>>

\* re.search("@{} (.*)".format(robot_name), text, re.I): the places of the
\* text where the pattern matches (the mention and a space after it)
matches(text, robot_name) ==
    { i \in 1 .. Len(text) - 1 : lower(text[i]) = "@" \o lower(robot_name) }

\* message.group(1) of the leftmost match
group1(text, robot_name) ==
    LET i == CHOOSE k \in matches(text, robot_name) :
                 \A j \in matches(text, robot_name) : k <= j
    IN SubSeq(text, i + 1, Len(text))

\* command.lower().split()
lower_split(command) ==
    LET words == SelectSeq(command, LAMBDA word : word # "")
    IN [ k \in 1 .. Len(words) |-> lower(words[k]) ]

\* bot_framework.py:126-131 (the lines of the message, without the quoting marks)
help_order ==
    <<"This is what I can do:">>
    \o [ k \in 1 .. Len(orders) |-> "- " \o orders[k] ]
    \o <<"- help : this help message">>

\* sdkbot.py:49-76, 135-198: the order called with the words after it; the
\* comments it posts itself, what it returns (<<>>: nothing), whether it
\* raises (a TypeError for words it has no parameter for included)
handler(order_name, args, env) ==
    IF order_name = "rebase"
    THEN IF Len(args) > 1
         THEN [ comments |-> <<>>, response |-> <<>>, raised |-> TRUE ]
         ELSE IF ~env.pull_request
         THEN [ comments |-> <<>>,
                response |-> << <<"Rebase is just supported in PR for now">> >>,
                raised |-> FALSE ]
         ELSE IF env.fails
         THEN [ comments |-> <<>>, response |-> <<>>, raised |-> TRUE ]
         ELSE [ comments |-> <<>>,
                response |-> << <<"Rebase done and pushed to the branch">> >>,
                raised |-> FALSE ]
    ELSE IF Len(args) # 1
         THEN [ comments |-> <<>>, response |-> <<>>, raised |-> TRUE ]
         ELSE IF ~env.pull_request
         THEN [ comments |-> <<>>,
                response |-> << <<"Rebuild is just supported in PR for now">> >>,
                raised |-> FALSE ]
         ELSE LET working == <<"Working on generating", args[1], "for you!!!">>
              IN IF env.fails
                 THEN [ comments |-> <<working>>, response |-> <<>>, raised |-> TRUE ]
                 ELSE [ comments |-> <<working>>,
                        response |-> << <<"Build SDK finished and cleaned">> >>,
                        raised |-> FALSE ]

\* the answers of the endpoint
NothingForMe == "Nothing for me"
NothingOrException == "Nothing for me or exception"
NotMyself == "I don't talk to myself, I'm not schizo"

\* manage_comment calling whatever method of the handler the word names
manage_comment_untagged(webhook_data, robot_name, env) ==
    LET text == webhook_data[1]
        command == group1(text, robot_name)
        split_text == lower_split(command)
        order_name == split_text[1]
        h == handler(order_name, Tail(split_text), env)
    IN IF webhook_data = <<>>
       THEN [ answer |-> NothingForMe, comments |-> <<>>, invoked |-> <<>>,
              raised |-> FALSE ]
       ELSE IF matches(text, robot_name) = {}
       THEN [ answer |-> NothingOrException, comments |-> <<>>, invoked |-> <<>>,
              raised |-> FALSE ]
       ELSE IF split_text = <<>>
       THEN [ answer |-> None, comments |-> <<>>, invoked |-> <<>>, raised |-> TRUE ]
       ELSE IF order_name = "help"
       THEN [ answer |-> "help", comments |-> <<help_order>>, invoked |-> <<>>,
              raised |-> FALSE ]
       ELSE IF order_name \in Range(orders_untagged)
       THEN [ answer |-> IF h.raised \/ h.response = <<>>
                         THEN NothingOrException ELSE "response",
              comments |-> h.comments
                           \o (IF h.raised THEN << <<"traceback">> >> ELSE h.response),
              invoked |-> <<order_name>>, raised |-> FALSE ]
       ELSE [ answer |-> "not understood",
              comments |-> << <<"I didn't understand your command:">> \o command
                              \o <<"in this context, sorry :(">> >>,
              invoked |-> <<>>, raised |-> FALSE ]

\* bot_framework.py:104-124: the answer of the endpoint, the comments
\* created on the issue in order, the order called on the handler (<<>>:
\* none), whether an exception leaves manage_comment
manage_comment(webhook_data, robot_name, env) ==
    LET text == webhook_data[1]
        command == group1(text, robot_name)
        split_text == lower_split(command)
        order_name == split_text[1]
        h == handler(order_name, Tail(split_text), env)
    IN IF webhook_data = <<>>
       THEN [ answer |-> NothingForMe, comments |-> <<>>, invoked |-> <<>>,
              raised |-> FALSE ]
       ELSE IF matches(text, robot_name) = {}
       THEN [ answer |-> NothingOrException, comments |-> <<>>, invoked |-> <<>>,
              raised |-> FALSE ]
       ELSE IF split_text = <<>>
       THEN [ answer |-> None, comments |-> <<>>, invoked |-> <<>>, raised |-> TRUE ]
       ELSE IF order_name = "help"
       THEN [ answer |-> "help", comments |-> <<help_order>>, invoked |-> <<>>,
              raised |-> FALSE ]
       ELSE IF order_name \in Range(orders)
       THEN [ answer |-> IF h.raised \/ h.response = <<>>
                         THEN NothingOrException ELSE "response",
              comments |-> h.comments
                           \o (IF h.raised THEN << <<"traceback">> >> ELSE h.response),
              invoked |-> <<order_name>>, raised |-> FALSE ]
       ELSE [ answer |-> "not understood",
              comments |-> << <<"I didn't understand your command:">> \o command
                              \o <<"in this context, sorry :(">> >>,
              invoked |-> <<>>, raised |-> FALSE ]

\* bot_framework.py:87-97: BotHandler.issue_comment and BotHandler.issues
issue_comment(body, robot_name, env) ==
    IF is_myself(body, robot_name)
    THEN [ answer |-> NotMyself, comments |-> <<>>, invoked |-> <<>>,
           raised |-> FALSE ]
    ELSE manage_comment(build_from_issue_comment(body), robot_name, env)

issues(body, robot_name, env) ==
    IF is_myself(body, robot_name)
    THEN [ answer |-> NotMyself, comments |-> <<>>, invoked |-> <<>>,
           raised |-> FALSE ]
    ELSE manage_comment(build_from_issues(body), robot_name, env)

\* github.py:51-65, notify: the handler of the event type
notify(body, env) ==
    IF body.type = "issue_comment" THEN issue_comment(body, RobotName, env)
    ELSE issues(body, RobotName, env)

BotInit ==
    /\ queue = <<>>
    /\ gh = [ flight |-> {} ]
    /\ src = [ fork |-> FALSE, base |-> "master" ]
    /\ last = NoLast
    /\ req = [ t \in Threads |-> IdleReq ]
    /\ wk = <<>>
    /\ enq = <<>>
    /\ begun = <<>>
    /\ ended = 0
    /\ logged = 0
    /\ recv = 0
    /\ call = NoCall

\* the delivery body is handled; the hosting service sends a delivery for
\* each comment the bot created
Notified(body, env, r, rest) ==
    /\ call' = [ fn |-> "notify", body |-> body, answer |-> r.answer,
                 comments |-> r.comments, invoked |-> r.invoked,
                 raised |-> r.raised, own |-> body \in gh.flight ]
    /\ gh' = [gh EXCEPT !.flight = rest \cup { OwnEvent(c) : c \in Range(r.comments) }]
    /\ UNCHANGED <<queue, src, last, req, wk, enq, begun, ended, logged>>

\* a delivery of somebody's comment or issue reaches /github
Deliver(body, env) ==
    /\ recv < MaxDeliveries
    /\ Cardinality(gh.flight) < MaxQueue
    /\ recv' = recv + 1
    /\ Notified(body, env, notify(body, env), gh.flight)

\* the delivery of a comment of the bot reaches /github
DeliverOwn(body, env) ==
    /\ body \in gh.flight
    /\ recv' = recv
    /\ Notified(body, env, notify(body, env), gh.flight \ {body})

BotNext ==
    \/ \E body \in BotEvents, env \in HandlerEnvs : Deliver(body, env)
    \/ \E body \in gh.flight, env \in HandlerEnvs : DeliverOwn(body, env)

BotSpec == BotInit /\ [][BotNext]_vars

\* the hosting service delivers every webhook it has sent
BotFairSpec ==
    BotSpec /\ WF_vars(\E body \in gh.flight, env \in HandlerEnvs : DeliverOwn(body, env))

(***************************************************************************)
(* InitialPrSpec: get_pr_from_travis_commit_sha of                         *)
(* SwaggerToSdkCore.py:184-209.  A commit message is a sequence of words,  *)
(* a word being plain text or a reference "#<number>"; the hosting service *)
(* answers get_pull and is_merged for each number.                        *)
(***************************************************************************)
\* the numbers a commit message may name
IssueNumbers == 1 .. 2

MessageWords == {"Merge", "#1", "#2"}

\* the commit messages of TRAVIS_COMMIT
TravisMessages == UNION { [1 .. n -> MessageWords] : n \in 0 .. MaxWords }

\* what the hosting service holds under a number: a merged PR, a PR not
\* merged, no PR (get_pull raises), a PR whose merge status request fails
PullAnswers == {"merged", "unmerged", "no pull", "merge status fails"}

\* int(issue) of a group matched by '#([\d]+)'
issue_int(word) ==
    CASE word = "#1" -> 1 [] word = "#2" -> 2

RECURSIVE findall_issues(_)
\* re.findall('#([\\d]+)', commit_message), as numbers, in order
findall_issues(commit_message) ==
    IF commit_message = <<>> THEN <<>>
    ELSE LET more == findall_issues(Tail(commit_message))
         IN IF Head(commit_message) = "Merge" THEN more
            ELSE <<issue_int(Head(commit_message))>> \o more

\* the object get_pull returns
PullObject(number) == [ found |-> TRUE, number |-> number ]

NoPullObject == [ found |-> FALSE, number |-> 0 ]

RECURSIVE check_issues(_, _, _)
\* the for loop: issue_object after the issues left to examine
check_issues(issues_in_message, issue_object, pulls) ==
    IF issues_in_message = <<>> THEN issue_object
    ELSE LET issue == Head(issues_in_message)
             answer == pulls[issue]
         IN CASE answer = "no pull" ->
                     check_issues(Tail(issues_in_message), issue_object, pulls)
              [] answer = "merged" -> PullObject(issue)
              [] answer \in {"unmerged", "merge status fails"} ->
                     check_issues(Tail(issues_in_message), PullObject(issue), pulls)

\* the PR the function returns, NoPullObject for None
get_pr_from_travis_commit_sha(is_travis, commit_message, pulls) ==
    IF ~is_travis THEN NoPullObject
    ELSE check_issues(findall_issues(commit_message), NoPullObject, pulls)

CallGetPr(is_travis, commit_message, pulls) ==
    /\ call' = [ fn |-> "get_pr_from_travis_commit_sha", is_travis |-> is_travis,
                 commit_message |-> commit_message, pulls |-> pulls,
                 result |-> get_pr_from_travis_commit_sha(is_travis, commit_message, pulls) ]
    /\ UNCHANGED <<queue, gh, src, last, req, wk, enq, begun, ended, logged, recv>>

InitialPrNext ==
    \E is_travis \in BOOLEAN, commit_message \in TravisMessages,
       pulls \in [IssueNumbers -> PullAnswers] :
          CallGetPr(is_travis, commit_message, pulls)

InitialPrSpec == NameInit /\ [][InitialPrNext]_vars

(***************************************************************************)
(* Properties of the passes (Spec)                                         *)
(***************************************************************************)
\* the head of the target PR of the source PR
TargetHead ==
    SdkOwner \o ":" \o from_pr_webhook(Body("opened", FALSE, FALSE), SdkBase).head_branch_name

Pull(n) == CHOOSE p \in gh.prs : p.number = n

\* C3: at most one open pull request exists for a (head, base) pair, and a
\* pass that ensures the target PR of a pair that already had an open pull
\* request gets that pull request and creates none.
C3_OnePullPerPair ==
    /\ \A p, q \in gh.prs :
          (p.state = "open" /\ q.state = "open" /\ p.head = q.head /\ p.base = q.base)
             => p = q
    /\ last.kind = "pass" =>
          \A e \in last.log.ensured : \A p \in last.pre :
             (p.head = e.head /\ p.base = e.base)
                => (e.number = p.number /\ ~e.created)

\* a pass found the existing target PR again (a repeated delivery)
C3_Witness ==
    /\ last.kind = "pass"
    /\ \E e \in last.log.ensured : \E p \in last.pre :
          p.head = e.head /\ p.base = e.base /\ p.number = e.number /\ ~e.created

\* C4: a 'closed' pass of a source PR that has an open target PR leaves that
\* target PR with merged and without in_progress when the event is merged,
\* and with refused, without in_progress and closed when it is not.
C4_ClosedLabels ==
    (/\ last.kind = "pass" /\ last.action = "closed" /\ last.fault = "none"
     /\ last.ntags >= 1 /\ last.ntags <= context_tags_limit)
    => \A q \in last.pre :
          q.head = TargetHead =>
             LET p == Pull(q.number)
             IN IF last.merged
                THEN merged \in p.labels /\ in_progress \notin p.labels
                ELSE /\ refused \in p.labels /\ in_progress \notin p.labels
                     /\ p.state = "closed"

C6_TagLimit ==
    (/\ last.kind = "pass" /\ last.fault # "read"
     /\ (last.ntags = 0 \/ last.ntags > 3))
    => /\ last.log = [NoLog EXCEPT !.comments = 1]
       /\ ~last.raised
       /\ OpenPulls(gh.prs) = last.pre

\* a pass refused four context tags while a target PR was open
C6_Witness ==
    /\ last.kind = "pass" /\ last.fault = "none" /\ last.ntags = 4
    /\ last.log.comments = 1 /\ last.pre # {}

\* a generation ran and left no diff against HEAD
NoDiff ==
    /\ last.kind \in {"pass", "push"}
    /\ last.log.gens > 0 /\ last.fault = "none" /\ ~last.diff

\* C7 as claimed: without a diff the pass makes no commit, no push, no lookup
\* and no creation of the target PR.
C7_NoDiffNoLookup ==
    NoDiff => /\ last.log.commits = 0 /\ last.log.pushed = {}
              /\ last.log.lookups = 0 /\ last.log.creates = 0

\* C7 amended: without a diff the pass makes no commit, pushes no branch and
\* creates or ensures no pull request (the lookups of the synchronize and
\* closed handlers do take place).
C7_NoDiffNoCommit ==
    NoDiff => /\ last.log.commits = 0 /\ last.log.pushed = {}
              /\ last.log.creates = 0 /\ last.log.ensured = {}
              /\ last.log.labelops = 0
              /\ OpenPulls(gh.prs) = last.pre

\* a synchronize pass regenerated for an existing target PR and found no diff
C7_Witness ==
    /\ NoDiff /\ last.action = "synchronize" /\ last.log.lookups > 0
    /\ last.pre # {}

(***************************************************************************)
(* Properties of the queue and the threads (QueueSpec)                     *)
(***************************************************************************)
Busy == { i \in DOMAIN wk : wk[i].pc \in {"handle", "gen"} }

\* C1: at most one rest_handle_action is in progress at any time, the pass
\* of an item begins only when the passes of all items before it have ended,
\* and passes begin in the order of the puts.
C1_OnePassFifo ==
    /\ Cardinality(Busy) <= 1
    /\ Len(begun) - ended <= 1
    /\ Len(begun) <= Len(enq)
    /\ \A k \in 1 .. Len(begun) : begun[k] = enq[k]

\* the pass of the second item is in progress, after the first one ended,
\* and the two items differ
C1_Witness ==
    /\ Len(begun) = 2 /\ ended = 1 /\ Busy # {}
    /\ enq[1] # enq[2]

\* C2: while the generation of one delivery is in progress, the generation of
\* no other delivery (pull_request or push) is in progress.
C2_OneGeneration ==
    Cardinality({ i \in DOMAIN wk : wk[i].pc = "gen" })
      + Cardinality({ t \in Threads : req[t].pc = "pushgen" }) <= 1

\* C8 as claimed: the enqueue never makes a request thread wait.
C8_NeverWaits ==
    \A t \in Threads : req[t].pc # "wait"

\* C8 amended: the enqueue waits while the queue holds its capacity and
\* drops nothing: the queue never exceeds the capacity, and a thread is past
\* the put only when its item has been put.
C8_BlockingEnqueue ==
    /\ Len(queue) <= MaxQueue
    /\ \A t \in Threads :
          req[t].pc = "size" => req[t].item \in Range(enq)
    /\ Len(enq) + Cardinality({ t \in Threads : req[t].pc \in {"put", "wait"} })
          <= recv

\* a request thread waits on the full queue
C8_Witness ==
    \E t \in Threads : req[t].pc = "wait" /\ Len(queue) = MaxQueue

\* C9: an exception of a pass is logged and the consumer goes on: no consumer
\* ever stops, and, the consumers being scheduled, the pass of every item
\* put on the queue eventually ends.
C9_ConsumerNeverDies ==
    /\ [](\A i \in DOMAIN wk : wk[i].pc \in {"get", "handle", "gen"})
    /\ [](logged <= ended)
    /\ \A n \in 1 .. MaxDeliveries : (Len(enq) >= n) ~> (ended >= n)

\* a pass ended after an earlier pass had raised
C9_Witness ==
    ended >= 2 /\ logged >= 1 /\ logged < ended

\* C10: the items put on the queue are, in order and unchanged, the items
\* handed to rest_handle_action followed by the items still queued; the item
\* in progress is the last one handed over, and every pass that ended was
\* the pass of a different put.
C10_ExactlyOnce ==
    /\ enq = begun \o queue
    /\ \A i \in Busy : wk[i].cur = begun[Len(begun)]
    /\ ended + Cardinality(Busy) = Len(begun)

\* every put of a full run was handled once, one of the passes raised
C10_Witness ==
    /\ Len(enq) = MaxDeliveries /\ ended = MaxDeliveries /\ queue = <<>>
    /\ logged >= 1 /\ begun = enq


(***************************************************************************)
(* The error boundary and the label calls, Spec and LabelFaultSpec          *)
(***************************************************************************)
\* the generation of the last pass was run and failed
GenerationFailed == last.fault = "gen" /\ last.log.gens > 0

C12_LabelsBestEffort ==
    (last.kind = "pass" /\ last.fault \in {"add", "remove"})
    => /\ ~last.raised
       /\ \A e \in last.log.ensured :
             /\ last.log.labelops >= 3
             /\ e.base = "restapi_auto_dns"
                => \E p \in gh.prs : /\ p.head = SdkOwner \o ":" \o "restapi_auto_dns"
                                     /\ p.state = "open"

(***************************************************************************)
(* The context branch, Spec                                                *)
(***************************************************************************)
\* rule 2 of the naming: the base branch of the source PR's base ref
RuleTwoBase == IF src.base = "master" THEN SdkBase ELSE "restapi_auto_" \o src.base

\* the case in which C19 lets a pass use the context branch
ContextBranchDue == last.ntags = 1 /\ src.fork /\ src.base = "master"

\* C19 as stated: in the open, close and synchronize handlers alike, the
\* target PR is sought and ensured under the context branch exactly when
\* the pass resolved one context tag, the source PR comes from a fork and
\* its base is the trunk, and under the rule-2 base otherwise; and the
\* open handler's generation checks the context branch out in that case only.
C19_ContextBranchRule ==
    (last.kind = "pass" /\ last.fault = "none" /\ last.ntags \in 1 .. context_tags_limit)
    => /\ \A b \in last.log.targets :
             b = IF ContextBranchDue THEN "restapi_auto_dns" ELSE RuleTwoBase
       /\ (last.action # "synchronize" /\ last.log.gens > 0)
          => ("restapi_auto_dns" \in Range(last.log.checkouts) <=> ContextBranchDue)


(***************************************************************************)
(* The label helpers, LabelSpec                                            *)
(***************************************************************************)
IssueLabels == labels_of(World(Answering), Issue.number)

\* C13: safe_remove_label never raises; on an issue without the label it
\* leaves the issue's labels as they were, on an issue with the label it
\* removes that label and no other.
C13_SafeRemoveFrame ==
    call.fn = "safe_remove_label"
    => /\ ~call.raised
       /\ IssueLabels = call.issue_before \ {call.label}
       /\ call.label \notin call.issue_before => IssueLabels = call.issue_before

\* a label the issue did not carry was removed from an issue carrying others
C13_Witness ==
    /\ call.fn = "safe_remove_label"
    /\ call.label \notin call.issue_before
    /\ call.issue_before # {}
    /\ IssueLabels = call.issue_before

\* the labels of the repo named name
Named(labels, name) == { l \in labels : l.name = name }

\* C14: each label name exists at most once in the repo; get_or_create_label
\* never fails and returns the label of the name asked for, leaving the repo
\* labels as they were when one of that name existed, and adding one label,
\* of the enum's name and colour, when none did.
C14_GetOrCreateLabel ==
    /\ \A name \in LabelNames : Cardinality(Named(gh.labels, name)) <= 1
    /\ call.fn = "get_or_create_label"
       => /\ ~call.raised
          /\ call.returned = call.label
          /\ gh.labels =
               IF Named(call.repo_before, call.label) # {}
               THEN call.repo_before
               ELSE call.repo_before
                    \cup {[ name |-> call.label, color |-> label_color(call.label) ]}

\* get_or_create_label returned a label that existed, in a repo where
\* another of the four was created on demand
C14_Witness ==
    /\ call.fn = "get_or_create_label"
    /\ Named(call.repo_before, call.label) \subseteq HandMade
    /\ Named(call.repo_before, call.label) # {}
    /\ gh.labels = call.repo_before
    /\ \E l \in gh.labels : l \notin HandMade


(***************************************************************************)
(* The branch names, NameSpec                                              *)
(***************************************************************************)
\* from_pr_webhook was called and returned an SdkPRModel
Modelled == call.fn = "from_pr_webhook" /\ ~call.result.raised

\* the call of from_pr_webhook before the last one
Prev == call.prev[1]

\* the last two calls of from_pr_webhook both returned an SdkPRModel
NamedTwice == Modelled /\ call.prev # <<>> /\ ~Prev.result.raised

\* C15: the head branch of a fork event differs from the head branch of
\* every non-fork event, and events of different forks get different head
\* branches.
C15_HeadsCollisionFree ==
    NamedTwice
    => /\ (IsFork(call.body) /\ ~IsFork(Prev.body))
          => call.result.head_branch_name # Prev.result.head_branch_name
       /\ (/\ IsFork(call.body) /\ IsFork(Prev.body)
           /\ call.body.head_repo # Prev.body.head_repo)
          => call.result.head_branch_name # Prev.result.head_branch_name

\* C16: the head branch is 'restapi_auto_' followed by the source PR number
\* for a fork event and by the source head ref otherwise.
C16_HeadBranchTemplate ==
    Modelled
    => call.result.head_branch_name =
          IF IsFork(call.body)
          THEN "restapi_auto_" \o ToString(call.body.number)
          ELSE "restapi_auto_" \o call.body.head_ref

\* C17: the base branch is the fallback base when the source base ref is
\* 'master' and 'restapi_auto_' followed by the source base ref otherwise.
C17_BaseBranch ==
    Modelled
    => call.result.base_branch_name =
          IF call.body.base_ref = "master" THEN call.base
          ELSE "restapi_auto_" \o call.body.base_ref

\* a source PR against the spec trunk was named under a fallback base other
\* than 'master', after one against another base
C17_Witness ==
    /\ NamedTwice
    /\ call.body.base_ref = "master" /\ call.base = "release"
    /\ call.result.base_branch_name = "release"
    /\ Prev.body.base_ref = "dev"
    /\ Prev.result.base_branch_name = "restapi_auto_dev"

\* C18: two calls of from_pr_webhook on the same event and fallback base
\* return the same result, whatever the hosting service holds at each.
C18_PureNaming ==
    (/\ call.fn = "from_pr_webhook" /\ call.prev # <<>>
     /\ Prev.body = call.body /\ Prev.base = call.base)
    => call.result = Prev.result


(***************************************************************************)
(* The checkouts of the generation, GitSpec                                *)
(***************************************************************************)
\* the generation was asked to check the context branch out
ContextBranchUsed ==
    /\ call.fn = "generate_sdk_from_git_object"
    /\ "restapi_auto_dns" \in Range(call.base_branch_names)

\* C20: when the generation uses a context branch, a context branch created
\* in the clone starts at the commit of the rule-2 base, a head branch
\* created in the clone starts at the commit of the context branch, and
\* the context branch is created before the head branch.
C20_CheckoutOrder ==
    ContextBranchUsed
    => LET started == call.repo.started
           local == call.repo.local
       IN \A i \in DOMAIN started :
             /\ started[i].branch = "restapi_auto_dns"
                => /\ call.sdk_base \in DOMAIN local
                   /\ started[i].at = local[call.sdk_base]
             /\ started[i].branch = call.branch_name
                => /\ started[i].at = local["restapi_auto_dns"]
                   /\ \A j \in DOMAIN started :
                         started[j].branch = "restapi_auto_dns" => j < i

(***************************************************************************)
(* The service PR and the merge of the target PR, LabelFaultSpec           *)
(***************************************************************************)
\* the open service PRs of the context branch into the trunk base
ServicePulls ==
    { p \in gh.prs : /\ p.head = SdkOwner \o ":" \o "restapi_auto_dns"
                      /\ p.base = SdkBase /\ p.state = "open" }

\* C21: a pass that used a context branch and ensured the target PR ends,
\* without an exception, with an open service PR from the context branch
\* into the trunk base, labelled service_pr unless the hosting service
\* refused the label.
C21_ServicePR ==
    (/\ last.kind = "pass"
     /\ \E e \in last.log.ensured : e.base = "restapi_auto_dns")
    => /\ ~last.raised
       /\ ServicePulls # {}
       /\ last.fault # "add" => \E p \in ServicePulls : service_pr \in p.labels

\* a pass of a 'closed' event with merged = true that found the target PR
\* under the context branch
MergedCloseOnContext ==
    /\ last.kind = "pass" /\ last.action = "closed" /\ last.merged
    /\ last.ntags = 1 /\ last.log.closing # {}

\* C22 as stated: every such pass calls sdk_pr.merge, runs the service-PR
\* step and lets no exception out of the handler.
C22_MergeAttempted ==
    MergedCloseOnContext
    => /\ last.log.merges = 1
       /\ last.log.services >= 1
       /\ ~last.raised /\ last.log.errors = 0

\* C22, amended: sdk_pr.merge is called (once) exactly when the merged label
\* was added and sdk_pr.mergeable answered true; whether the merge or the
\* label fails, the failure becomes one comment on the target PR, the
\* service-PR step runs after it and no exception leaves the handler.
C22_MergeNonFatal ==
    MergedCloseOnContext
    => /\ last.log.mergeable = "unread" <=> last.fault = "add"
       /\ last.log.merges = (IF last.log.mergeable = "true" THEN 1 ELSE 0)
       /\ last.log.sdkcomments = (IF \/ last.fault = "add"
                                     \/ last.fault = "merge" /\ last.log.merges = 1
                                  THEN 1 ELSE 0)
       /\ last.log.services >= 1
       /\ last.log.ensured = {} => last.log.services = 1
       /\ ~last.raised /\ last.log.errors = 0

\* the hosting service refused the merge of a target PR that an earlier
\* pass had created, and the pass went on to the service PR
C22_Witness ==
    /\ MergedCloseOnContext /\ last.fault = "merge"
    /\ last.log.ensured = {} /\ last.log.merges = 1
    /\ last.log.sdkcomments = 1 /\ last.log.services = 1
    /\ last.log.errors = 0

(***************************************************************************)
(* The lookups of the close and synchronize handlers, Spec                 *)
(***************************************************************************)
\* C29: a 'closed' or 'synchronize' pass seeks the target PR under the base
\* under which the open handler, run in the same pass for the same source
\* PR and context tags, ensures it; a 'closed' pass therefore finds the
\* target PR the open handler ensured and applies its transition to it.
C29_SameLookupPair ==
    (/\ last.kind = "pass" /\ last.fault = "none"
     /\ last.action \in {"closed", "synchronize"}
     /\ last.ntags \in 1 .. context_tags_limit)
    => /\ Cardinality(last.log.targets) <= 1
       /\ last.action = "closed"
          => \A e \in last.log.ensured : last.log.closing = {e.number}

\* the head of the target PR of the source PR
SourceHead ==
    SdkOwner \o ":" \o from_pr_webhook(Body("closed", FALSE, FALSE), SdkBase).head_branch_name

\* no open pull request of the source PR's head among prs
NoTarget(prs) == \A p \in prs : p.state = "open" => p.head # SourceHead

\* the pass of the event just consumed started without a target PR
NoTargetBefore ==
    /\ last.kind = "pass" /\ last.fault = "none"
    /\ last.ntags \in 1 .. context_tags_limit
    /\ \A p \in last.pre : p.head # SourceHead

\* the open handler ran in the pass: it generated for a fork PR, and ensured
\* the target PR (for a fork PR, when the generation left a diff)
OpenHandlerRan ==
    /\ src.fork => last.log.gens = 1
    /\ (~src.fork \/ last.diff) => last.log.ensured # {}

\* the hosting service after the pass of a 'closed' event from world w
ClosedAlone(m, w, env) ==
    rest_handle_action(Body("closed", m, FALSE), w, SdkBase, env).w

\* the hosting service after the passes of 'opened' and then 'closed'
OpenedThenClosed(m, w, env) ==
    LET o == rest_handle_action(Body("opened", FALSE, FALSE), w, SdkBase, env).w
    IN ClosedAlone(m, [o EXCEPT !.log = NoLog], env)

\* from the hosting service as it is now, without a target PR, a 'closed'
\* pass and the passes 'opened' then 'closed' end with the same pull
\* requests (numbers, pairs, labels, states) and the same repo labels
ClosedEquivalence ==
    \A env \in { e \in Envs : e.fault = "none" /\ e.tags \in ReachingTagLists },
       m \in BOOLEAN :
       NoTarget(gh.prs)
       => LET a == ClosedAlone(m, World(env), env)
              b == OpenedThenClosed(m, World(env), env)
          IN a.prs = b.prs /\ a.labels = b.labels

\* C30 as stated: every 'closed' or 'synchronize' pass that starts without
\* a target PR runs the open handler first.
C30_HandledAsOpen ==
    (NoTargetBefore /\ last.action \in {"closed", "synchronize"})
    => OpenHandlerRan

\* C30, amended: a 'closed' pass, and a 'synchronize' pass of a fork PR
\* whose commit changed, that starts without a target PR runs the open
\* handler first; a 'synchronize' pass of a non-fork PR or without a commit
\* change does nothing; and a 'closed' pass ends as 'opened' then 'closed'.
C30_MissingTargetOpened ==
    /\ (NoTargetBefore /\ last.action = "closed") => OpenHandlerRan
    /\ (NoTargetBefore /\ last.action = "synchronize")
       => IF src.fork /\ ~last.same THEN OpenHandlerRan
          ELSE last.log = NoLog /\ OpenPulls(gh.prs) = last.pre
    /\ ClosedEquivalence

\* a 'closed' event was the first of its fork PR: the pass created the
\* target PR and applied the refused transition to it
C30_Witness ==
    /\ NoTargetBefore /\ last.action = "closed" /\ ~last.merged /\ src.fork
    /\ \E e \in last.log.ensured :
          /\ e.created /\ last.log.closing = {e.number}
          /\ Pull(e.number).state = "closed" /\ refused \in Pull(e.number).labels

\* C24: a call of generate_sdk_from_git_object pushes nothing when it made
\* no commit and exactly base_branch_names and branch_name when it made
\* one, never the fallback base; on origin the fallback base and every
\* other branch not pushed stay at their commit, each base branch pushed
\* is at the commit it had or, when new, at the commit it was created at,
\* and branch_name is at the new commit.
C24_FallbackNotPushed ==
    call.fn = "generate_sdk_from_git_object"
    => /\ call.pushed = (IF call.committed
                         THEN Range(call.base_branch_names) \cup {call.branch_name}
                         ELSE {})
       /\ call.fallback \notin call.pushed
       /\ call.after[call.fallback] = call.before[call.fallback]
       /\ \A b \in DOMAIN call.before :
             b # call.branch_name => call.after[b] = call.before[b]
       /\ call.committed
          => /\ call.after[call.branch_name] = call.repo.head
             /\ call.repo.head \notin DOMAIN call.before
             /\ \A b \in DOMAIN call.before : call.after[b] # call.repo.head \/ b = call.branch_name

\* a generation with a diff created a base branch and the head branch in
\* the clone and pushed both, the trunk staying as it was
C24_Witness ==
    /\ call.fn = "generate_sdk_from_git_object" /\ call.committed
    /\ call.base_branch_names # <<>>
    /\ call.pushed = Range(call.base_branch_names) \cup {call.branch_name}
    /\ \E b \in call.pushed : b \notin DOMAIN call.before /\ b # call.branch_name
    /\ call.after[call.fallback] = call.fallback

(***************************************************************************)
(* do_commit, CommitSpec                                                   *)
(***************************************************************************)
\* the template with hexsha written in place of every {hexsha}
Substituted(message_template, hexsha) ==
    join([ i \in DOMAIN message_template |->
             IF message_template[i] = "{hexsha}" THEN hexsha ELSE message_template[i] ])

\* the working tree of the call differs from the tree of HEAD
Changed == call.worktree # tree_of(call.before, call.before.head)

\* the call left the clone as it was and returned False
NothingCommitted ==
    ~call.raised /\ ~call.result /\ call.repo = call.before

\* the call returned True with branch_name active and a new commit at HEAD,
\* its parent the commit branch_name was at (HEAD, for a new branch)
NewCommit ==
    /\ ~call.raised /\ call.result
    /\ call.repo.active = call.branch_name
    /\ call.branch_name \in DOMAIN call.repo.local
    /\ call.repo.local[call.branch_name] = call.repo.head
    /\ Len(call.repo.commits) = Len(call.before.commits) + 1
    /\ LET c == call.repo.commits[Len(call.repo.commits)]
       IN /\ c.id = call.repo.head
          /\ \A i \in DOMAIN call.before.commits : call.before.commits[i].id # c.id
          /\ c.id \notin call.before.origin
          /\ c.parent = (IF tip(call.before, call.branch_name) = None
                         THEN call.before.head
                         ELSE tip(call.before, call.branch_name))
          /\ c.tree = call.worktree
          /\ c.message = Substituted(call.message_template, call.hexsha)

\* C25 as stated: without a change do_commit returns False and leaves HEAD,
\* the active branch and the branches as they were; with a change it
\* returns True, branch_name is active and HEAD is a new commit with the
\* template's message, {hexsha} substituted.
C25_DoCommit ==
    call.fn = "do_commit"
    => IF Changed THEN NewCommit ELSE NothingCommitted

\* C25, amended: the same for a template whose only replacement field is
\* {hexsha}; with a change and a template with another field, the call
\* raises with branch_name checked out and no commit made.
C25_DoCommitOneField ==
    call.fn = "do_commit"
    => IF ~Changed THEN NothingCommitted
       ELSE IF \A i \in DOMAIN call.message_template :
                  is_field(call.message_template[i])
                  => call.message_template[i] = "{hexsha}"
       THEN NewCommit
       ELSE /\ call.raised
            /\ call.repo.commits = call.before.commits
            /\ call.repo.active = call.branch_name

\* after a commit, the file was deleted and written again with the content
\* it had: the call returned False and the clone stayed on its branch
C25_Witness ==
    /\ call.fn = "do_commit"
    /\ call.before.commits # <<>>
    /\ Len(call.edits) = 2 /\ call.edits[1].op = "unlink"
    /\ ~Changed /\ ~call.result
    /\ call.repo.active = call.before.active
    /\ call.repo.active # call.branch_name
    /\ message_of(call.repo, call.repo.head) = "Test fakehexsha"

(***************************************************************************)
(* The context resolver, ResolveSpec                                       *)
(***************************************************************************)
\* the tag each changed path stands for: that of its most specific pattern
ExpectedTag(path) ==
    IF path = <<"specification", "dns", "resource-manager", "readme.md">>
    THEN "dns/resource-manager"
    ELSE IF path = <<"specification", "dns", "resource-manager", "Microsoft.Network",
                     "stable", "2018-05-01", "dns.json">>
    THEN "dns/resource-manager"
    ELSE IF path[1] = "specification" /\ path[2] = "foo" THEN "foo"
    ELSE IF path[1] = "specification" /\ path[2] = "web" THEN "web"
    ELSE None

\* C23: the resolver returns the set of the tags of the changed paths, one
\* tag (that of the first matching pattern) for a path that matches and
\* none for a path that does not, paths of one service giving one element.
C23_ContextResolution ==
    call.fn = "resolve"
    => /\ call.result = { ExpectedTag(p) : p \in call.changed_paths } \ {None}
       /\ Cardinality(call.result) <= Cardinality(call.changed_paths)
       /\ call.changed_paths = {<<"specification", "dns", "resource-manager", "readme.md">>}
          => call.result = {"dns/resource-manager"}
       /\ call.changed_paths = { <<"specification", "foo", "stable", "2020-01-01", "a.json">>,
                                 <<"specification", "foo", "stable", "2020-01-01", "b.json">> }
          => call.result = {"foo"}

\* the readme and a versioned file of one service, a file outside every
\* pattern and a file of another service resolved to two tags
C23_Witness ==
    /\ call.fn = "resolve"
    /\ <<"specification", "dns", "resource-manager", "readme.md">> \in call.changed_paths
    /\ <<"specification", "dns", "resource-manager", "Microsoft.Network", "stable",
          "2018-05-01", "dns.json">> \in call.changed_paths
    /\ <<"README.md">> \in call.changed_paths
    /\ call.result = {"dns/resource-manager", "foo"}

(***************************************************************************)
(* do_pr, PrSpec                                                           *)
(***************************************************************************)
\* the open pull requests of the head and base of the call, among prs
SamePair(prs) ==
    { p \in prs : /\ p.state = "open" /\ p.base = call.base_branch
                  /\ p.head = (IF Len(call.sdk_git_id) > 1
                               THEN call.sdk_git_id[1] \o ":" \o call.branch_name
                               ELSE call.branch_name) }

\* the call had a token and a target repo the hosting service knows
Equipped == call.gh_token # None /\ call.sdk_pr_target_repo_id = SdkId

GlobalKeyed == get(call.global_conf, call.key)
LocalKeyed == get(call.local_conf, call.key)

\* the keys of a dict
Keys(dict) == { item[1] : item \in dict }

\* the result for a key both configurations hold: the union of the
\* elements of two lists; for two dicts the union of the keys, each key of
\* the local dict with the local value and each other key with the global
MergedBoth ==
    /\ call.result # <<>>
    /\ GlobalKeyed[1].type = "list"
       => call.result[1].v = Range(GlobalKeyed[1].v) \cup Range(LocalKeyed[1].v)
    /\ GlobalKeyed[1].type = "dict"
       => /\ Keys(call.result[1].v) = Keys(GlobalKeyed[1].v) \cup Keys(LocalKeyed[1].v)
          /\ \A item \in call.result[1].v :
                IF item[1] \in Keys(LocalKeyed[1].v) THEN item \in LocalKeyed[1].v
                ELSE item \in GlobalKeyed[1].v
          /\ \A a, b \in call.result[1].v : a[1] = b[1] => a = b

\* the call left both configurations as they were
InputsKept ==
    call.global_after = call.global_conf /\ call.local_after = call.local_conf

\* C27 as stated: for a key one configuration lacks the value of the other
\* is returned (None when both lack it); for a key both hold the result is
\* the merge; the configurations are not modified.
C27_MergeOptions ==
    call.fn = "merge_options"
    => /\ InputsKept
       /\ IF GlobalKeyed = <<>> THEN call.result = LocalKeyed
          ELSE IF LocalKeyed = <<>> THEN call.result = GlobalKeyed
          ELSE MergedBoth

\* C27, amended: for a key the local configuration lacks, the global value
\* is returned when it is not empty, and None when it is empty.
C27_MergeOptionsFalsy ==
    call.fn = "merge_options"
    => /\ InputsKept
       /\ IF GlobalKeyed = <<>> THEN call.result = LocalKeyed
          ELSE IF LocalKeyed = <<>>
          THEN call.result = (IF truthy(GlobalKeyed[1]) THEN GlobalKeyed ELSE <<>>)
          ELSE MergedBoth

\* two dicts with a key in common were merged, the local value kept
C27_Witness ==
    /\ call.fn = "merge_options"
    /\ GlobalKeyed # <<>> /\ LocalKeyed # <<>>
    /\ GlobalKeyed[1].type = "dict"
    /\ <<"2", "3">> \in GlobalKeyed[1].v /\ <<"2", "9">> \in LocalKeyed[1].v
    /\ <<"2", "9">> \in call.result[1].v /\ <<"2", "3">> \notin call.result[1].v
    /\ Cardinality(call.result[1].v) = 2

(***************************************************************************)
(* The projects of a Travis run, TravisSpec                                *)
(***************************************************************************)
\* the projects --project selects: all of them without the option
Selected ==
    { project \in Projects : ~pattern_skips(call.project_pattern, project) }

\* C28: in Travis mode the projects generated are, with a PR detected, the
\* selected projects with an input file inside the PR and, with no PR
\* detected, all the selected projects.
C28_TravisProjects ==
    (call.fn \in {"generate_sdk", "build_libraries"} /\ call.travis)
    => call.generated = (IF call.pr_detected
                         THEN { project \in Selected : ~no_input_in(call.files, project) }
                         ELSE Selected)


(***************************************************************************)
(* The push delivery and the open pass of a non-fork PR (PushRaceSpec)     *)
(***************************************************************************)
\* C31: the open pass of a source PR from a branch of the spec repo itself
\* gives repo.create_pull only a head branch that the SDK repo had when the
\* pass began (the push delivery of the branch has pushed it).
C31_HeadPushedFirst ==
    (last.kind = "pass" /\ last.action = "opened")
    => \A h \in last.attempted : has_branch(last.heads, h)


(***************************************************************************)
(* The start of the worker thread (QueueSpec)                              *)
(***************************************************************************)
\* a request thread leaves the start of the worker without a consumer having
\* been started: _WORKER_THREAD.start() raised and the delivery is lost
StartFailed(t) ==
    req[t].pc = "start" /\ req'[t].pc # "start" /\ wk' = wk

\* C32: the worker thread is started at most once, at most one consumer ever
\* runs, and no delivery ends in the worker start-up check of rest_notify.
C32_WorkerStartedOnce ==
    /\ [](Len(wk) <= 1)
    /\ [][\A t \in Threads : ~StartFailed(t)]_vars


(***************************************************************************)
(* The lifecycle labels (LabelFaultSpec, Spec)                             *)
(***************************************************************************)
LifecycleLabels == {in_progress, merged, refused}

\* C33: at the end of every pass each pull request of the SDK repo carries at
\* most one of the labels in_progress, merged and refused.
C33_LifecycleExclusive ==
    \A p \in gh.prs : Cardinality(p.labels \cap LifecycleLabels) <= 1


(***************************************************************************)
(* The events no handler is written for (Spec)                             *)
(***************************************************************************)
\* the actions rest_handle_action has a handler for, github.py:170-175
HandledActions == {"opened", "reopened", "closed", "synchronize"}

\* C34: the pass of a pull_request event whose action has no handler changes
\* nothing on the hosting service: no comment on the source PR, no branch
\* pushed, no pull request created or changed, no label call.
C34_OtherActionNoEffect ==
    (last.kind = "pass" /\ last.action \notin HandledActions)
    => /\ last.log = NoLog
       /\ OpenPulls(gh.prs) = last.pre


(***************************************************************************)
(* The synchronize handler (Spec)                                          *)
(***************************************************************************)
\* the last pass reached rest_pull_sync
SyncPass ==
    /\ last.kind = "pass" /\ last.action = "synchronize"
    /\ last.ntags >= 1 /\ last.ntags <= context_tags_limit

\* github.py:322-329, 376-385: the base the close and synchronize handlers
\* look the target PR up under
LookupBase ==
    IF last.ntags = 1 THEN "restapi_auto_dns" ELSE RuleTwoBase

\* the open pull requests the first lookup of the pass found
FoundBefore ==
    { p \in last.pre : p.head = SourceHead /\ p.base = LookupBase }

SeveralFound ==
    /\ last.kind = "pass" /\ last.action = "closed"
    /\ Cardinality(FoundBefore) > 1

\* C36: a close pass that finds more than one target PR of the pair looks up
\* once and does nothing else: no label call, no pull request closed, merged
\* or created, no service PR, no comment.
C36_SeveralUntouched ==
    SeveralFound
    => /\ last.log = [NoLog EXCEPT !.lookups = 1, !.targets = last.log.targets]
       /\ ~last.raised
       /\ OpenPulls(gh.prs) = last.pre

\* a close pass of a merged source PR found two target PRs carrying in_progress
C36_Witness ==
    /\ SeveralFound /\ last.merged /\ last.log.lookups = 1
    /\ \A p \in FoundBefore : in_progress \in Pull(p.number).labels


(***************************************************************************)
(* The bot (BotSpec, BotFairSpec)                                          *)
(***************************************************************************)
\* the delivery handled last was sent by the account of the bot
FromRobot ==
    call.fn = "notify" /\ lower(call.body.sender) = lower(RobotName)

\* C37: a delivery whose sender is the bot's own login, in any case of the
\* letters, creates no comment and calls no order of the handler; the
\* deliveries caused by the bot's comments therefore cause no further
\* comment, and once people stop writing no delivery stays unhandled.
C37_NoSelfTalk ==
    /\ [](FromRobot => /\ call.comments = <<>> /\ call.invoked = <<>>
                       /\ call.answer = NotMyself /\ ~call.raised)
    /\ <>[](gh.flight = {})

\* the bot ignored the delivery of a comment of its own that mentions it
C37_Witness ==
    /\ FromRobot /\ call.own /\ call.body.action = "created"
    /\ \E i \in 1 .. Len(call.body.text) - 1 : call.body.text[i] = "@" \o RobotName
    /\ call.comments = <<>>

\* what C38 asks for each text: no comment ("nothing"), the help message,
\* the order called, the reply to a word that is no order ("unknown"), or
\* nothing said (a mention with no word after it)
ExpectedReply(text) ==
    CASE text = <<"thanks">> -> "nothing"
      [] text = <<"@AutorestCIx", "help">> -> "nothing"
      [] text = <<"@AutorestCI", "help">> -> "help"
      [] text = <<"ping", "@autorestci", "Help">> -> "help"
      [] text = <<"@AutorestCI", "rebase">> -> "rebase"
      [] text = <<"@AutorestCI", "REBUILD", "dns">> -> "rebuild"
      [] text = <<"@AutorestCI", "rebuild", "@AutorestCI", "help">> -> "rebuild"
      [] text = <<"@AutorestCI", "generate", "readme.md">> -> "unknown"
      [] text = <<"@AutorestCI", "__init__">> -> "unknown"
      [] text = <<"@AutorestCI", "@AutorestCI", "help">> -> "unknown"
      [] OTHER -> "unsaid"

\* the delivery handled last came from somebody else and carries a text
\* (bot_framework.py:54, 65)
TextHandled ==
    /\ call.fn = "notify" /\ ~FromRobot
    /\ \/ call.body.type = "issue_comment" /\ call.body.action \in {"created", "edited"}
       \/ call.body.type = "issues" /\ call.body.action = "opened"

\* C38: manage_comment calls a method of the handler only when the first
\* word after the mention names a method tagged with @order; help gets the
\* help message of the framework, another word the reply "I didn't
\* understand your command" and no call, a text without mention no comment.
C38_OrdersOnly ==
    TextHandled =>
       LET expected == ExpectedReply(call.body.text)
       IN /\ call.invoked # <<>> => /\ expected \in {"rebase", "rebuild"}
                                    /\ call.invoked = <<expected>>
          /\ expected \in {"rebase", "rebuild"} => call.invoked = <<expected>>
          /\ expected = "nothing" => call.comments = <<>> /\ ~call.raised
          /\ expected = "help" => call.comments = <<help_order>>
          /\ expected = "unknown" =>
                /\ Len(call.comments) = 1
                /\ call.comments[1][1] = "I didn't understand your command:"

\* somebody asked for the untagged method generate and got the reply
C38_Witness ==
    /\ TextHandled /\ call.body.text = <<"@AutorestCI", "generate", "readme.md">>
    /\ call.answer = "not understood" /\ call.invoked = <<>>
    /\ Len(call.comments) = 1

(***************************************************************************)
(* The pull request of a Travis commit, InitialPrSpec                      *)
(***************************************************************************)
\* the numbers the commit message of the last call refers to
ReferencedIssues ==
    { findall_issues(call.commit_message)[k] :
        k \in DOMAIN findall_issues(call.commit_message) }

\* C39: get_pr_from_travis_commit_sha returns None or a pull request that
\* the commit message names as #<number> and whose is_merged() is true.
C39_MergedPrOnly ==
    call.fn = "get_pr_from_travis_commit_sha" =>
        \/ ~call.result.found
        \/ /\ call.result.number \in ReferencedIssues
           /\ call.pulls[call.result.number] = "merged"

====
